---------------------------- MODULE Spec2Model ----------------------------
(***************************************************************************)
(* Prism RSS reader (viewer.js): the reading-stats tracker, the text       *)
(* formatter of the generic renderer and the HTML sanitizer.               *)
(*                                                                         *)
(* Calendar days are records [k, y, m, d].  Date.prototype.toDateString    *)
(* yields "Www Mmm dd yyyy": the weekday is a function of the date, so the *)
(* string is modelled by its (y, m, d) part with k = "day".  k = "null"    *)
(* is the absent lastReadDate, k = "junk" a string that is no date and     *)
(* k = "invalid" the Date that new Date() builds from such a string.       *)
(***************************************************************************)
EXTENDS Integers, Sequences, FiniteSets, TLC

\* ------------------------------------------------------------- bounds
\* Days the clock may run in the runs from the zero-value stats.
MaxDay == 6
\* Irregular events of such a run: clock steps that leave a day without a
\* read, and reads on a day that already has one.
MaxIrregular == 3
\* The same two for the long runs, which fill the history past its cap.
LongDays == 31
LongIrregular == 1
\* Largest number of days one clock step may advance.
MaxJump == 3
\* The same two for the runs over arbitrary persisted stats, and the largest
\* streak and article count such stats hold.
AnyDays == 1
AnyIrregular == 1
AnyCount == 2
\* Calls of trackArticleRead started, and days the clock may run, in the
\* interleaved runs.
MaxRaceCalls == 3
MaxRaceDay == 1
\* Parts a text handed to formatValue is put together from.
MaxParts == 3
\* Top-level nodes of the markup handed to sanitizeHtml.
MaxNodes == 2
\* Parts the node name of a document element is put together from.
MaxNameParts == 3
\* Child elements of an item of a feed.
MaxFields == 3
\* Items of a feed, in the documents that hold more than one.
MaxItems == 2
\* Characters by which the plain text of a description may pass the length
\* of the summary.
MaxOver == 2

\* Minutes of reading the longest description of a card stands for, and the
\* words by which a description may miss a whole number of minutes.
MaxMinutes == 2
MaxSlack == 1
\* Whole units of time (minutes, hours, days, months, years) between a date
\* and the clock, and the seconds by which the clock may miss them.
MaxUnits == 2
MaxSkew == 1
\* Children of a branch of a document handed to the generic renderer, and
\* the containers a subtree of such a document may be wrapped in.
MaxGenKids == 2
MaxDepth == 2
\* Calls of the subscription manager in one run.
MaxSubOps == 4
\* Runs of the new-article checker one after the other, and the items by
\* which a feed may pass the number of titles the checker keeps.
MaxChecks == 2
MaxExtra == 2
\* Operations on the store in the runs that mix every kind of them.
MaxStoreOps == 2
\* Events the background worker sees in one run, and the feeds one page may
\* announce.
MaxTabEvents == 4
MaxFeeds == 2
\* Steps of the reader panel in one run, and the articles of one feed.
MaxReaderOps == 5
MaxArticles == 2

\* history.length > 30
HISTORY_CAP == 30

\* FEED_COLORS.length
FEED_COLORS_LENGTH == 10

\* currentTitles.slice(0, 20)
TITLES_KEPT == 20

VARIABLES
    now,        \* the calendar day of the system clock (new Date())
    storage,    \* chrome.storage.local: the value under "readingStats"
    last,       \* the latest finished trackArticleRead: stats before, day, outcome
    calls,      \* finished trackArticleRead calls
    readDays,   \* ordinals of the days on which a read was recorded
    daysLeft,   \* days the clock may still advance
    spare,      \* irregular events still allowed
    pc,         \* per caller: "idle", or "loaded" between the two awaits
    local,      \* per caller: the stats object getReadingStats resolved to
    race,       \* the overlap of two calls being followed
    text,       \* formatValue: the text of a leaf of the generic tree
    fmtOut,     \* formatValue: what it returned, as the pieces it put together
    fmtDone,    \* formatValue has returned
    html,       \* sanitizeHtml: the markup handed to it
    out1,       \* sanitizeHtml(html)
    out2,       \* sanitizeHtml(sanitizeHtml(html))
    passes,     \* how many of the two calls have returned
    unsafe,     \* escapeHtml: its argument
    escOut,     \* escapeHtml: what it returned
    escDone,    \* escapeHtml has returned
    xml,        \* the parsed XML document the reader page was opened on
    tod,        \* seconds into the day of the system clock, as timeAgo reads it
    feedPc,     \* the reader page: "start", "detected", "rendered"
    feedType,   \* detectType(root)
    feed,       \* renderSmartFeed: channel metadata and allArticles, or its throw
    keywords,   \* chrome.storage.local: the value under "keywords"
    kwLast,     \* the latest finished call of the keyword watchlist
    article,    \* the article a card of the feed view is built for
    timeShown,  \* the read time put on that card; <<>> before it is built
    agoDate,    \* timeAgo: its argument
    agoClock,   \* timeAgo: the instant new Date() gives, in seconds
    agoOut,     \* timeAgo: what it returned
    agoDone,    \* timeAgo has returned
    fetched,    \* the dashboard: the children of the document fetched for a subscription
    dashClock,  \* the dashboard: Date.now(), in seconds
    badge,      \* the dashboard: the health badge on the card; "loading" before
    genRoot,    \* the generic view: the document element of the parsed document
    genOut,     \* the generic view: what was appended to the page, or the throw
    store,      \* chrome.storage.local, every key of it
    opLast,     \* the latest finished operation on the store
    opsLeft,    \* operations on the store still to come
    checkLog,   \* the runs of checkForNewArticles so far: what the network gave
                \* and the new articles counted for every subscription
    actionBadge, \* the text of the global badge of the extension
    tabFeeds,   \* the background worker: its object tabFeeds, per tab
    tabBadge,   \* the badge text the browser holds per tab
    tabLast,    \* the latest event of the worker, with what it found and answered
    announced,  \* per tab: the feeds of its latest feedsDetected message, none
                \* once the tab was closed or changed its URL
    eventsLeft, \* events of the worker still to come
    reader,     \* the inline article reader: _articleList, _currentArticleIndex,
                \* the panel in the page, document._readerKeyHandler, the
                \* keydown listeners of the reader on document, reads tracked
    readerLast, \* the latest step of the reader and the reader before it
    readerLeft  \* steps of the reader still to come

statsVars == <<now, storage, last, calls, readDays, daysLeft, spare, pc, local, race>>
fmtVars == <<text, fmtOut, fmtDone>>
sanVars == <<html, out1, out2, passes>>
escVars == <<unsafe, escOut, escDone>>
feedVars == <<xml, tod, feedPc, feedType, feed>>
kwVars == <<keywords, kwLast>>
readVars == <<article, timeShown>>
earlyVars == <<statsVars, fmtVars, sanVars, escVars, feedVars, kwVars>>
agoVars == <<agoDate, agoClock, agoOut, agoDone>>
healthVars == <<fetched, dashClock, badge>>
genVars == <<genRoot, genOut>>
storeVars == <<store, opLast, opsLeft, checkLog, actionBadge>>
tabVars == <<tabFeeds, tabBadge, tabLast, announced, eventsLeft>>
readerVars == <<reader, readerLast, readerLeft>>
laterVars == <<readVars, agoVars, healthVars, genVars, storeVars, tabVars, readerVars>>
notStats == <<fmtVars, sanVars, escVars, feedVars, kwVars, laterVars>>
notFmt == <<statsVars, sanVars, escVars, feedVars, kwVars, laterVars>>
notSan == <<statsVars, fmtVars, escVars, feedVars, kwVars, laterVars>>
notEsc == <<statsVars, fmtVars, sanVars, feedVars, kwVars, laterVars>>
notFeed == <<statsVars, fmtVars, sanVars, escVars, kwVars, laterVars>>
notKw == <<statsVars, fmtVars, sanVars, escVars, feedVars, laterVars>>
notRead == <<earlyVars, agoVars, healthVars, genVars, storeVars, tabVars, readerVars>>
notAgo == <<earlyVars, readVars, healthVars, genVars, storeVars, tabVars, readerVars>>
notHealth == <<earlyVars, readVars, agoVars, genVars, storeVars, tabVars, readerVars>>
notGen == <<earlyVars, readVars, agoVars, healthVars, storeVars, tabVars, readerVars>>
notStore == <<earlyVars, readVars, agoVars, healthVars, genVars, tabVars, readerVars>>
notTab == <<earlyVars, readVars, agoVars, healthVars, genVars, storeVars, readerVars>>
notReader == <<earlyVars, readVars, agoVars, healthVars, genVars, storeVars, tabVars>>

vars == <<earlyVars, laterVars>>

\* ------------------------------------------------------------ calendar

NullDate == [k |-> "null", y |-> 0, m |-> 0, d |-> 0]
JunkDate == [k |-> "junk", y |-> 0, m |-> 0, d |-> 0]
InvalidDate == [k |-> "invalid", y |-> 0, m |-> 0, d |-> 0]

Day(y, m, d) == [k |-> "day", y |-> y, m |-> m, d |-> d]

\* The first day of the short runs (they cross the year's end) and of the long
\* runs (they cross February).
StartDate == Day(2025, 12, 29)
LongStart == Day(2026, 1, 30)

IsLeap(y) == (y % 4 = 0 /\ y % 100 # 0) \/ y % 400 = 0

DaysInMonth(y, m) ==
    IF m = 2 THEN (IF IsLeap(y) THEN 29 ELSE 28)
    ELSE IF m \in {4, 6, 9, 11} THEN 30 ELSE 31

\* Date.prototype.setDate(n) for n in 0 .. days of the month: day 0 is the last
\* day of the month before, and month 0 of a year the December before it.
SetDateNoRollover(dt, n) == [dt EXCEPT !.d = IF n = 0 THEN DaysInMonth(dt.y, dt.m) ELSE n]

SetDate(dt, n) ==
    IF n >= 1 THEN [dt EXCEPT !.d = n]
    ELSE IF dt.m = 1 THEN Day(dt.y - 1, 12, 31)
    ELSE Day(dt.y, dt.m - 1, DaysInMonth(dt.y, dt.m - 1))

\* new Date(string): the day a toDateString string names, Invalid Date otherwise.
ParseDate(s) == IF s.k = "day" THEN s ELSE InvalidDate

\* Date.prototype.toDateString(): "Invalid Date" for an invalid Date.
ToDateString(dt) == IF dt.k = "day" THEN dt ELSE InvalidDate

\* The clock one day on.
NextDay(dt) ==
    IF dt.d < DaysInMonth(dt.y, dt.m) THEN [dt EXCEPT !.d = dt.d + 1]
    ELSE IF dt.m = 12 THEN Day(dt.y + 1, 1, 1)
    ELSE Day(dt.y, dt.m + 1, 1)

RECURSIVE AddDays(_, _)
AddDays(dt, n) == IF n = 0 THEN dt ELSE AddDays(NextDay(dt), n - 1)

\* Days from 1 January 2025 to dt: the position of a day on the time line.
RECURSIVE DaysBeforeMonth(_, _)
DaysBeforeMonth(y, m) == IF m = 1 THEN 0 ELSE DaysBeforeMonth(y, m - 1) + DaysInMonth(y, m - 1)

RECURSIVE DaysBeforeYear(_)
DaysBeforeYear(y) == IF y <= 2025 THEN 0 ELSE DaysBeforeYear(y - 1) + (IF IsLeap(y - 1) THEN 366 ELSE 365)

Ordinal(dt) == DaysBeforeYear(dt.y) + DaysBeforeMonth(dt.y, dt.m) + dt.d

\* --------------------------------------------------------------- text
\* A string is the sequence of its characters.

\* String.prototype.replace(/c/g, rep)
RECURSIVE ReplaceAll(_, _, _)
ReplaceAll(s, c, rep) ==
    IF s = <<>> THEN <<>>
    ELSE (IF Head(s) = c THEN rep ELSE <<Head(s)>>) \o ReplaceAll(Tail(s), c, rep)

AmpEntity == <<"&", "a", "m", "p", ";">>
LtEntity == <<"&", "l", "t", ";">>
GtEntity == <<"&", "g", "t", ";">>
QuotEntity == <<"&", "q", "u", "o", "t", ";">>
AposEntity == <<"&", "#", "0", "3", "9", ";">>

\* The values undefined and null, written as one-element sequences of a
\* token that is no character.
Undefined == <<"undefined">>
Null == <<"null">>

\* The values a condition takes as false, among strings and the two above.
Falsy(v) == v \in {<<>>, Undefined, Null}

\* v || ""
OrEmpty(v) == IF Falsy(v) THEN <<>> ELSE v

\* escapeHtml without its last replacement.
EscapeNoApos(v) ==
    ReplaceAll(ReplaceAll(ReplaceAll(ReplaceAll(OrEmpty(v),
        "&", AmpEntity), "<", LtEntity), ">", GtEntity), "\"", QuotEntity)

\* Global HTML Escaper
escapeHtml(v) ==
    ReplaceAll(ReplaceAll(ReplaceAll(ReplaceAll(ReplaceAll(OrEmpty(v),
        "&", AmpEntity), "<", LtEntity), ">", GtEntity), "\"", QuotEntity), "'", AposEntity)

\* \s of a regular expression
IsSpace(c) == c \in {" ", "\t", "\n"}

Http == <<"h", "t", "t", "p", ":", "/", "/">>
Https == <<"h", "t", "t", "p", "s", ":", "/", "/">>

HasPrefix(s, i, pre) ==
    /\ i + Len(pre) - 1 <= Len(s)
    /\ SubSeq(s, i, i + Len(pre) - 1) = pre

\* [^\s]+ from p on: the index of the last character of the run.
RECURSIVE RunEnd(_, _)
RunEnd(s, p) == IF p < Len(s) /\ ~IsSpace(s[p + 1]) THEN RunEnd(s, p + 1) ELSE p

\* /(https?:\/\/[^\s]+)/ tried at index i: the index of the last character of
\* the match, 0 when it does not match there.
MatchEnd(s, i) ==
    LET p == IF HasPrefix(s, i, Https) THEN i + Len(Https)
             ELSE IF HasPrefix(s, i, Http) THEN i + Len(Http)
             ELSE 0
    IN  IF p # 0 /\ p <= Len(s) /\ ~IsSpace(s[p]) THEN RunEnd(s, p) ELSE 0

Markup(s) == [markup |-> TRUE, s |-> s]
Payload(s) == [markup |-> FALSE, s |-> s]

\* The replacement callback of formatValue: the anchor for one matched url.
Anchor(url) ==
    LET cleanUrl == escapeHtml(url)
    IN  <<Markup(<<"<", "a", " ", "h", "r", "e", "f", "=", "\"">>),
          Payload(cleanUrl),
          Markup(<<"\"", " ", "t", "a", "r", "g", "e", "t", "=", "\"", "_", "b", "l", "a", "n", "k",
                   "\"", ">">>),
          Payload(cleanUrl),
          Markup(<<"<", "/", "a", ">">>)>>

\* text.replace(urlRegex, callback) from index i on: the matches replaced by
\* their anchors, every other character copied as it is.
RECURSIVE ReplaceUrls(_, _)
ReplaceUrls(s, i) ==
    IF i > Len(s) THEN <<>>
    ELSE LET e == MatchEnd(s, i)
         IN  IF e # 0 THEN Anchor(SubSeq(s, i, e)) \o ReplaceUrls(s, e + 1)
             ELSE <<Payload(<<s[i]>>)>> \o ReplaceUrls(s, i + 1)

\* formatValue(text), as the pieces of the string it returns: the markup it
\* adds itself and the characters that come from the text.
formatValue(t) == ReplaceUrls(t, 1)

RECURSIVE Flatten(_)
Flatten(pieces) == IF pieces = <<>> THEN <<>> ELSE Head(pieces).s \o Flatten(Tail(pieces))

\* ---------------------------------------------------------------- html
\* A node is [tag, attrs, kids, content, data]: a text node has tag "#text"
\* and its characters in data; an element has its attributes (name, value)
\* in attrs and its child nodes in kids.  The template contents of a
\* <template> are in content, a fragment of their own: they are no children
\* of the element, selectors do not reach them, and innerHTML writes them
\* out.  Markup is written as the forest of its well-nested elements and
\* texts.

TextNode(chars) == [tag |-> "#text", attrs |-> <<>>, kids |-> <<>>, content |-> <<>>, data |-> chars]
Element(tag, attrs, kids) == [tag |-> tag, attrs |-> attrs, kids |-> kids, content |-> <<>>, data |-> <<>>]
Template(content) == [tag |-> "template", attrs |-> <<>>, kids |-> <<>>, content |-> content, data |-> <<>>]

IsText(n) == n.tag = "#text"

\* Adjacent text nodes are one run of characters in markup.
RECURSIVE MergeText(_)
MergeText(f) ==
    IF f = <<>> THEN <<>>
    ELSE LET n == Head(f)
             rest == MergeText(Tail(f))
         IN  IF IsText(n)
             THEN IF rest # <<>> /\ IsText(Head(rest))
                  THEN <<TextNode(n.data \o Head(rest).data)>> \o Tail(rest)
                  ELSE <<n>> \o rest
             ELSE <<[n EXCEPT !.kids = MergeText(n.kids), !.content = MergeText(n.content)]>>
                  \o rest

RECURSIVE DropLeadingSpace(_)
DropLeadingSpace(chars) ==
    IF chars # <<>> /\ IsSpace(Head(chars)) THEN DropLeadingSpace(Tail(chars)) ELSE chars

\* Start tags the tree builder handles "in head" while no body is open.
HeadPlaced ==
    {"base", "basefont", "bgsound", "link", "meta", "noframes", "noscript", "script",
     "style", "template", "title"}

\* The tree builder before the body is open: white space is not body content,
\* head-placed elements go to the head, anything else opens the body, which
\* takes it and all that follows.
RECURSIVE Place(_, _)
Place(f, head) ==
    IF f = <<>> THEN [head |-> head, body |-> <<>>]
    ELSE LET n == Head(f)
         IN  IF IsText(n)
             THEN LET rest == DropLeadingSpace(n.data)
                  IN  IF rest = <<>> THEN Place(Tail(f), head)
                      ELSE [head |-> head, body |-> <<TextNode(rest)>> \o Tail(f)]
             ELSE IF n.tag \in HeadPlaced THEN Place(Tail(f), Append(head, n))
             ELSE [head |-> head, body |-> f]

\* new DOMParser().parseFromString(html, "text/html"): the document element.
parseFromString(markup) ==
    LET placed == Place(MergeText(markup), <<>>)
    IN  Element("html", <<>>,
                <<Element("head", <<>>, placed.head), Element("body", <<>>, placed.body)>>)

\* doc.querySelectorAll(tag).forEach(n => n.remove()) on a forest.
RECURSIVE RemoveTag(_, _)
RemoveTag(f, tag) ==
    IF f = <<>> THEN <<>>
    ELSE LET n == Head(f)
         IN  (IF ~IsText(n) /\ n.tag = tag THEN <<>>
              ELSE <<[n EXCEPT !.kids = RemoveTag(n.kids, tag)]>>)
             \o RemoveTag(Tail(f), tag)

badTags == <<"script", "iframe", "object", "embed", "form", "base", "head", "meta", "link">>

\* badTags.forEach(...), from the i-th tag on.
RECURSIVE RemoveBadFrom(_, _, _)
RemoveBadFrom(f, tags, i) ==
    IF i > Len(tags) THEN f ELSE RemoveBadFrom(RemoveTag(f, tags[i]), tags, i + 1)

UpperCase == <<"A", "B", "C", "D", "E", "F", "G", "H", "I", "J", "K", "L", "M", "N", "O",
               "P", "Q", "R", "S", "T", "U", "V", "W", "X", "Y", "Z">>

\* String.prototype.toLowerCase()
toLowerCase(chars) ==
    LET lowerCase == <<"a", "b", "c", "d", "e", "f", "g", "h", "i", "j", "k", "l", "m", "n", "o",
                       "p", "q", "r", "s", "t", "u", "v", "w", "x", "y", "z">>
    IN  [i \in 1..Len(chars) |->
            IF \E k \in 1..Len(UpperCase) : UpperCase[k] = chars[i]
            THEN lowerCase[CHOOSE k \in 1..Len(UpperCase) : UpperCase[k] = chars[i]]
            ELSE chars[i]]

RECURSIVE DropTrailingSpace(_)
DropTrailingSpace(chars) ==
    IF chars # <<>> /\ IsSpace(chars[Len(chars)])
    THEN DropTrailingSpace(SubSeq(chars, 1, Len(chars) - 1))
    ELSE chars

\* String.prototype.trim()
trim(chars) == DropTrailingSpace(DropLeadingSpace(chars))

startsWith(chars, pre) == HasPrefix(chars, 1, pre)

\* The test of the attribute loop of sanitizeHtml.
DangerousAttr(attr) ==
    \/ startsWith(attr.name, <<"o", "n">>)
    \/ startsWith(toLowerCase(trim(attr.value)),
                  <<"j", "a", "v", "a", "s", "c", "r", "i", "p", "t", ":">>)
    \/ startsWith(toLowerCase(trim(attr.value)), <<"d", "a", "t", "a", ":">>)

\* doc.querySelectorAll("*").forEach(el => ...) on a forest.
RECURSIVE StripAttrs(_)
StripAttrs(f) ==
    IF f = <<>> THEN <<>>
    ELSE LET n == Head(f)
         IN  <<[n EXCEPT !.attrs = SelectSeq(n.attrs, LAMBDA a : ~DangerousAttr(a)),
                         !.kids = StripAttrs(n.kids)]>>
             \o StripAttrs(Tail(f))

\* doc.body.innerHTML: the markup of the children of the body.
bodyInnerHTML(doc) ==
    LET bodies == SelectSeq(doc.kids, LAMBDA n : n.tag = "body")
    IN  MergeText(Head(bodies).kids)

\* Basic HTML Sanitizer for Article Content.
sanitizeHtml(markup) ==
    IF markup = <<>> THEN <<>>
    ELSE LET doc == parseFromString(markup)
             cut == RemoveBadFrom(<<doc>>, badTags, 1)
             stripped == StripAttrs(cut)
         IN  bodyInnerHTML(Head(stripped))

\* ------------------------------------------------- markup as characters
\* The characters of well-formed markup, read into the forest they write:
\* texts, start tags with double-quoted attributes, end tags, the void
\* elements and <template>.  The markup read here holds no character
\* references and no comments.

\* The least index from i on at which s holds c, 0 if there is none.
IndexFrom(s, i, c) ==
    IF \E j \in i..Len(s) : s[j] = c
    THEN CHOOSE j \in i..Len(s) : s[j] = c /\ \A k \in i..(j - 1) : s[k] # c
    ELSE 0

\* A tag name, from its characters.
RECURSIVE TagName(_)
TagName(chars) == IF chars = <<>> THEN "" ELSE Head(chars) \o TagName(Tail(chars))

\* Elements that have no end tag.
VoidTags == {"area", "base", "br", "col", "embed", "hr", "img", "input", "link", "meta",
             "source", "track", "wbr"}

\* The attributes written in the inside w of a start tag, from index i on.
RECURSIVE ReadAttrs(_, _)
ReadAttrs(w, i) ==
    IF i > Len(w) THEN <<>>
    ELSE IF IsSpace(w[i]) THEN ReadAttrs(w, i + 1)
    ELSE LET eq == IndexFrom(w, i, "=")
             sp == IndexFrom(w, i, " ")
         IN  IF eq = 0 \/ (sp # 0 /\ sp < eq)
             THEN \* a name without a value
                  LET stop == IF sp = 0 THEN Len(w) ELSE sp - 1
                  IN  <<[name |-> SubSeq(w, i, stop), value |-> <<>>]>>
                      \o ReadAttrs(w, stop + 1)
             ELSE LET close == IndexFrom(w, eq + 2, "\"")
                  IN  <<[name |-> SubSeq(w, i, eq - 1),
                         value |-> SubSeq(w, eq + 2, close - 1)]>>
                      \o ReadAttrs(w, close + 1)

\* The nodes written from index i on, up to the end tag that closes the
\* element they are in, and the index after that end tag.
RECURSIVE ReadNodes(_, _)
ReadNodes(s, i) ==
    IF i > Len(s) THEN [nodes |-> <<>>, next |-> i]
    ELSE IF s[i] # "<"
    THEN LET lt == IndexFrom(s, i, "<")
             stop == IF lt = 0 THEN Len(s) ELSE lt - 1
             rest == ReadNodes(s, stop + 1)
         IN  [nodes |-> <<TextNode(SubSeq(s, i, stop))>> \o rest.nodes, next |-> rest.next]
    ELSE LET gt == IndexFrom(s, i, ">")
         IN  IF gt = 0
             THEN [nodes |-> <<TextNode(SubSeq(s, i, Len(s)))>>, next |-> Len(s) + 1]
             ELSE IF s[i + 1] = "/" THEN [nodes |-> <<>>, next |-> gt + 1]
             ELSE LET w == SubSeq(s, i + 1, gt - 1)
                      sp == IndexFrom(w, 1, " ")
                      tag == TagName(IF sp = 0 THEN w ELSE SubSeq(w, 1, sp - 1))
                      attrs == IF sp = 0 THEN <<>> ELSE ReadAttrs(w, sp + 1)
                  IN  IF tag \in VoidTags
                      THEN LET rest == ReadNodes(s, gt + 1)
                           IN  [nodes |-> <<Element(tag, attrs, <<>>)>> \o rest.nodes,
                                next |-> rest.next]
                      ELSE LET inner == ReadNodes(s, gt + 1)
                               rest == ReadNodes(s, inner.next)
                               node == IF tag = "template" THEN Template(inner.nodes)
                                       ELSE Element(tag, attrs, inner.nodes)
                           IN  [nodes |-> <<node>> \o rest.nodes, next |-> rest.next]

\* new DOMParser().parseFromString(htmlContent, "text/html") of a string
parseHtml(s) == parseFromString(ReadNodes(s, 1).nodes)

\* Node.textContent of the nodes of a forest
RECURSIVE textContent(_)
textContent(f) ==
    IF f = <<>> THEN <<>>
    ELSE (IF IsText(Head(f)) THEN Head(f).data ELSE textContent(Head(f).kids))
         \o textContent(Tail(f))

\* The elements of a forest that are descendants in the tree, in document
\* order: what querySelectorAll("*") goes through.
RECURSIVE ElementsOf(_)
ElementsOf(f) ==
    IF f = <<>> THEN <<>>
    ELSE (IF IsText(Head(f)) THEN <<>> ELSE <<Head(f)>> \o ElementsOf(Head(f).kids))
         \o ElementsOf(Tail(f))

\* ------------------------------------------------------------ relative time
\* An instant is a number of seconds from 2025-01-01T00:00:00Z.  The date
\* strings of the model are the ISO dates "yyyy-mm-dd" of existing days from
\* 2025 on, which new Date() reads as midnight UTC of that day, and strings
\* no Date is read from.

\* The number that is no number; the numbers of the model are naturals.
NaN == -1

DigitChars == <<"0", "1", "2", "3", "4", "5", "6", "7", "8", "9">>

RECURSIVE NumberOf(_)
NumberOf(chars) ==
    IF chars = <<>> THEN 0
    ELSE 10 * NumberOf(SubSeq(chars, 1, Len(chars) - 1))
         + (CHOOSE k \in 1..10 : DigitChars[k] = chars[Len(chars)]) - 1

\* Number.prototype.toString() of a natural number
RECURSIVE NumberChars(_)
NumberChars(n) ==
    IF n < 10 THEN <<DigitChars[n + 1]>> ELSE NumberChars(n \div 10) \o <<DigitChars[(n % 10) + 1]>>

\* new Date(dateString).getTime() in seconds; NaN for an Invalid Date.
DateSeconds(s) ==
    IF /\ Len(s) = 10
       /\ s[5] = "-"
       /\ s[8] = "-"
       /\ \A i \in {1, 2, 3, 4, 6, 7, 9, 10} : \E k \in 1..10 : DigitChars[k] = s[i]
    THEN LET y == NumberOf(SubSeq(s, 1, 4))
             mo == NumberOf(SubSeq(s, 6, 7))
             d == NumberOf(SubSeq(s, 9, 10))
         IN  IF y >= 2025 /\ mo \in 1..12 /\ d \in 1..DaysInMonth(y, mo)
             THEN (Ordinal(Day(y, mo, d)) - 1) * 86400
             ELSE NaN
    ELSE NaN

\* new Date(): the instant of the system clock.
ClockSeconds(day, secs) == (Ordinal(day) - 1) * 86400 + secs

\* Relative time; clock is the instant new Date() gives.  seconds / n > 1
\* is seconds > n, and Math.floor(seconds / n) is seconds \div n then.
timeAgo(dateString, clock) ==
    LET date == DateSeconds(dateString)
        ago == <<" ", "a", "g", "o">>
    IN  IF date = NaN THEN dateString
        ELSE LET seconds == clock - date
             IN  IF seconds > 31536000 THEN NumberChars(seconds \div 31536000) \o <<" ", "y", "e", "a", "r", "s">> \o ago
                 ELSE IF seconds > 2592000 THEN NumberChars(seconds \div 2592000) \o <<" ", "m", "o", "n", "t", "h", "s">> \o ago
                 ELSE IF seconds > 86400 THEN NumberChars(seconds \div 86400) \o <<" ", "d", "a", "y", "s">> \o ago
                 ELSE IF seconds > 3600 THEN NumberChars(seconds \div 3600) \o <<" ", "h", "o", "u", "r", "s">> \o ago
                 ELSE IF seconds > 60 THEN NumberChars(seconds \div 60) \o <<" ", "m", "i", "n", "u", "t", "e", "s">> \o ago
                 ELSE <<"J", "u", "s", "t", " ", "n", "o", "w">>

\* ------------------------------------------------------------------ feeds
\* The parsed XML document handed to the reader.  The document element is
\* known by its node name, the characters detectType lower-cases, and by its
\* children; an element below it is [prefix, local, attrs, text, kids], its
\* own text standing before its child elements.  Type selectors and
\* getElementsByTagNameNS("*", ...) match the local name in any namespace, by
\* exact case.

XElem(prefix, localName, attrs, chars, kids) ==
    [prefix |-> prefix, local |-> localName, attrs |-> attrs, text |-> chars, kids |-> kids]

\* What querySelector gives when nothing matches.
NoElement == XElem("", "#none", <<>>, <<>>, <<>>)

RECURSIVE Descendants(_)
Descendants(kids) ==
    IF kids = <<>> THEN <<>>
    ELSE <<Head(kids)>> \o Descendants(Head(kids).kids) \o Descendants(Tail(kids))

querySelectorAll(kids, localName) ==
    SelectSeq(Descendants(kids), LAMBDA x : x.local = localName)

querySelector(kids, localName) ==
    LET found == querySelectorAll(kids, localName)
    IN  IF found = <<>> THEN NoElement ELSE Head(found)

getElementsByTagNameNS(kids, localName) == querySelectorAll(kids, localName)

RECURSIVE XmlText(_)
XmlText(kids) == IF kids = <<>> THEN <<>> ELSE Head(kids).text \o XmlText(Head(kids).kids) \o XmlText(Tail(kids))

\* el?.textContent
TextOf(el) == IF el.local = "#none" THEN Undefined ELSE XmlText(<<el>>)

\* Element.getAttribute(name): null when the element has no such attribute.
getAttribute(el, name) ==
    LET found == SelectSeq(el.attrs, LAMBDA a : a.name = name)
    IN  IF found = <<>> THEN Null ELSE Head(found).value

\* el?.getAttribute(name)
AttrOf(el, name) == IF el.local = "#none" THEN Undefined ELSE getAttribute(el, name)

\* a || b
Or(a, b) == IF Falsy(a) THEN b ELSE a

RssName == <<"r", "s", "s">>
RdfName == <<"r", "d", "f", ":", "r", "d", "f">>
FeedName == <<"f", "e", "e", "d">>
UrlsetName == <<"u", "r", "l", "s", "e", "t">>

\* detectType comparing the node name as it is written.
detectTypeExactCase(nodeName) ==
    IF nodeName = RssName \/ nodeName = RdfName THEN "rss"
    ELSE IF nodeName = FeedName THEN "atom"
    ELSE IF nodeName = UrlsetName THEN "sitemap"
    ELSE "generic"

\* detectType(root), of root.nodeName
detectType(nodeName) ==
    LET lower == toLowerCase(nodeName)
    IN  IF lower = RssName \/ lower = RdfName THEN "rss"
        ELSE IF lower = FeedName THEN "atom"
        ELSE IF lower = UrlsetName THEN "sitemap"
        ELSE "generic"

Href == <<"h", "r", "e", "f">>
Url == <<"u", "r", "l">>
Type == <<"t", "y", "p", "e">>
Medium == <<"m", "e", "d", "i", "u", "m">>
Image == <<"i", "m", "a", "g", "e">>

\* Extract image from HTML string.  img.src is the src attribute as a URL,
\* resolved against the URL of the reader page when it is relative, and the
\* empty string when the attribute is absent or empty.
extractImage(htmlContent) ==
    LET doc == parseHtml(htmlContent)
        imgs == SelectSeq(ElementsOf(<<doc>>), LAMBDA n : n.tag = "img")
        baseUrl == <<"c", "h", "r", "o", "m", "e", "-", "e", "x", "t", "e", "n", "s", "i", "o",
                     "n", ":", "/", "/", "i", "d", "/">>
        src == IF imgs = <<>> THEN Null ELSE getAttribute(Head(imgs), <<"s", "r", "c">>)
    IN  IF imgs = <<>> THEN Null
        ELSE IF Falsy(src) THEN <<>>
        ELSE IF startsWith(src, Http) \/ startsWith(src, Https) THEN src
        ELSE baseUrl \o src

\* rawText.substring(0, 150)
SUMMARY_MAX == 150

Ellipsis == <<".", ".", ".">>

\* String.prototype.substring(0, n)
substring(s, n) == SubSeq(s, 1, IF Len(s) < n THEN Len(s) ELSE n)

\* The image of an item when the description gave none (fromDesc is falsy):
\* the enclosure, the media content loop and the thumbnail, as the code
\* orders and guards them.
ImageFallback(item, fromDesc) ==
    LET enclosure == querySelector(item.kids, "enclosure")
        encType == AttrOf(enclosure, Type)
        fromEnclosure ==
            IF enclosure.local # "#none" /\ ~Falsy(encType) /\ startsWith(encType, Image)
            THEN getAttribute(enclosure, Url) ELSE fromDesc
        mediaContent == SelectSeq(getElementsByTagNameNS(item.kids, "content"),
                                  LAMBDA x : getAttribute(x, Medium) = Image)
        fromMedia ==
            IF mediaContent # <<>> THEN getAttribute(Head(mediaContent), Url)
            ELSE fromEnclosure
        mediaThumbnail == getElementsByTagNameNS(item.kids, "thumbnail")
    IN  IF Falsy(fromMedia) /\ mediaThumbnail # <<>>
        THEN getAttribute(Head(mediaThumbnail), Url)
        ELSE fromMedia

\* itemDate with the second and the first element of its chain exchanged.
itemDateUpdatedFirst(item) ==
    Or(Or(TextOf(querySelector(item.kids, "updated")),
          TextOf(querySelector(item.kids, "pubDate"))),
       TextOf(querySelector(item.kids, "date")))

\* const itemDate = ...
itemDate(item) ==
    Or(Or(TextOf(querySelector(item.kids, "pubDate")),
          TextOf(querySelector(item.kids, "updated"))),
       TextOf(querySelector(item.kids, "date")))

\* let fullContent = ""; ... the encoded element, then the content element
fullContent(item) ==
    LET contentEncoded == getElementsByTagNameNS(item.kids, "encoded")
        encoded == IF contentEncoded # <<>> THEN Or(XmlText(<<Head(contentEncoded)>>), <<>>)
                   ELSE <<>>
    IN  IF Falsy(encoded) THEN Or(TextOf(querySelector(item.kids, "content")), <<>>)
        ELSE encoded

\* let itemDesc = ...
itemDesc(item) ==
    Or(Or(Or(TextOf(querySelector(item.kids, "description")),
             TextOf(querySelector(item.kids, "summary"))),
          fullContent(item)), <<>>)

\* let itemImage = extractImage(itemDesc); if (!itemImage) { ... }
itemImage(item) ==
    LET fromDesc == extractImage(itemDesc(item))
    IN  IF Falsy(fromDesc) THEN ImageFallback(item, fromDesc) ELSE fromDesc

\* tempDoc.body.textContent || ""
rawText(htmlContent) == Or(textContent(bodyInnerHTML(parseHtml(htmlContent))), <<>>)

\* textSummary with the marker set from the limit on, not from above it.
textSummaryAtLimit(chars) ==
    substring(chars, SUMMARY_MAX) \o (IF Len(chars) >= SUMMARY_MAX THEN Ellipsis ELSE <<>>)

\* const textSummary = rawText.substring(0, 150) + (rawText.length > 150 ? "..." : "")
textSummary(chars) ==
    substring(chars, SUMMARY_MAX) \o (IF Len(chars) > SUMMARY_MAX THEN Ellipsis ELSE <<>>)

\* content without its fallback.
articleContentOnly(full, desc) == full

\* content: fullContent || itemDesc
articleContent(full, desc) == Or(full, desc)

\* The body of items.forEach: the article of one item.
ExtractArticle(item, feedTitle, feedUrl, clock) ==
    LET itemTitle == Or(TextOf(querySelector(item.kids, "title")),
                           <<"N", "o", " ", "T", "i", "t", "l", "e">>)
        itemLink == Or(TextOf(querySelector(item.kids, "link")),
                       AttrOf(querySelector(item.kids, "link"), Href))
    IN  [title |-> itemTitle,
         link |-> itemLink,
         content |-> articleContent(fullContent(item), itemDesc(item)),
         date |-> IF Falsy(itemDate(item)) THEN <<>> ELSE timeAgo(itemDate(item), clock),
         originalDate |-> itemDate(item),
         feedTitle |-> feedTitle,
         feedUrl |-> feedUrl,
         image |-> itemImage(item),
         description |-> itemDesc(item),
         textSummary |-> textSummary(rawText(itemDesc(item)))]

\* renderSmartFeed(root, type, feedUrl) up to the end of its first pass: the
\* channel metadata and allArticles, or the TypeError of a property read on
\* null.
renderSmartFeed(root, type, feedUrl, clock) ==
    LET channel == IF type = "rss" THEN querySelector(root.kids, "channel") ELSE NoElement
        scope == IF type = "rss" THEN channel.kids ELSE root.kids
        title == TextOf(querySelector(scope, "title"))
        desc == Or(TextOf(querySelector(scope, "description")),
                   TextOf(querySelector(scope, "subtitle")))
        items == querySelectorAll(root.kids, IF type = "rss" THEN "item" ELSE "entry")
    IN  IF type = "rss" /\ channel.local = "#none"
        THEN [threw |-> TRUE, title |-> Undefined, desc |-> Undefined, allArticles |-> <<>>]
        ELSE [threw |-> FALSE, title |-> title, desc |-> desc,
              allArticles |-> [i \in 1..Len(items) |->
                                  ExtractArticle(items[i], title, feedUrl, clock)]]

\* Math.ceil(wordCount / 200)
WORDS_PER_MINUTE == 200

\* s.split(/\s+/).length: the pieces between the runs of white space, the
\* empty pieces before a leading and after a trailing run included.
splitLength(chars) ==
    1 + Cardinality({i \in 1..Len(chars) :
                        IsSpace(chars[i]) /\ (i = 1 \/ ~IsSpace(chars[i - 1]))})

\* const readTime = Math.ceil(wordCount / 200)
readTime(a) ==
    LET wordCount == splitLength(a.title \o <<" ">> \o a.description)
    IN  (wordCount + WORDS_PER_MINUTE - 1) \div WORDS_PER_MINUTE

\* const timeString = readTime < 1 ? "1 min read" : `${readTime} min read`
timeString(a) ==
    LET minRead == <<" ", "m", "i", "n", " ", "r", "e", "a", "d">>
    IN  IF readTime(a) < 1 THEN <<"1">> \o minRead ELSE NumberChars(readTime(a)) \o minRead

\* renderDashboard: the health badge on the card of one subscription whose
\* feed was fetched and parsed; "none" for the card without a badge that is
\* drawn when the feed has no items.  kids are the children of the document
\* element, clock is Date.now() in seconds.
healthBadge(kids, clock) ==
    LET entries == SelectSeq(Descendants(kids), LAMBDA x : x.local \in {"item", "entry"})
        item == Head(entries)
        dateStr == Or(TextOf(querySelector(item.kids, "pubDate")),
                      TextOf(querySelector(item.kids, "updated")))
        d == DateSeconds(dateStr)
        ageSeconds == clock - d
    IN  IF entries = <<>> THEN "none"
        ELSE IF Falsy(dateStr) THEN "white"
        ELSE IF d = NaN THEN "green"
        ELSE IF ageSeconds > 30 * 86400 THEN "red"
        ELSE IF ageSeconds > 7 * 86400 THEN "yellow"
        ELSE "green"

\* ------------------------------------------------------ keyword watchlist
\* The value under "keywords": set = FALSE when nothing is stored, else the
\* array of keywords.
Stored(list) == [set |-> TRUE, list |-> list]
NoKeywords == [set |-> FALSE, list |-> <<>>]

\* getKeywords: data.keywords || []
getKeywords(stored) == IF stored.set THEN stored.list ELSE <<>>

\* Array.prototype.includes
Includes(list, k) == \E i \in 1..Len(list) : list[i] = k

\* addKeyword without the test for a keyword already there.
addKeywordNoDedup(stored, keyword) ==
    LET list == getKeywords(stored)
        normalized == toLowerCase(trim(keyword))
    IN  IF normalized # <<>>
        THEN [stored |-> Stored(Append(list, normalized)), returned |-> TRUE]
        ELSE [stored |-> stored, returned |-> FALSE]

\* addKeyword: what is stored afterwards and what the call returns.
addKeyword(stored, keyword) ==
    LET list == getKeywords(stored)
        normalized == toLowerCase(trim(keyword))
    IN  IF normalized # <<>> /\ ~Includes(list, normalized)
        THEN [stored |-> Stored(Append(list, normalized)), returned |-> TRUE]
        ELSE [stored |-> stored, returned |-> FALSE]

\* removeKeyword: what is stored afterwards.
removeKeyword(stored, keyword) ==
    Stored(SelectSeq(getKeywords(stored), LAMBDA k : k # keyword))

\* String.prototype.includes
includes(s, k) == \E i \in 1..(Len(s) + 1) : HasPrefix(s, i, k)

\* matchesKeywords comparing the text as it is written.
matchesKeywordsExactCase(chars, list) ==
    IF chars = <<>> \/ Len(list) = 0 THEN <<>>
    ELSE SelectSeq(list, LAMBDA k : includes(chars, k))

\* matchesKeywords without its filter.
matchesKeywordsAll(chars, list) ==
    IF chars = <<>> \/ Len(list) = 0 THEN <<>> ELSE list

matchesKeywords(chars, list) ==
    IF chars = <<>> \/ Len(list) = 0 THEN <<>>
    ELSE LET lower == toLowerCase(chars)
         IN  SelectSeq(list, LAMBDA k : includes(lower, k))

\* -------------------------------------------------------- reading stats

\* A counter that is no number: ++ leaves NaN.
Inc(x) == IF x = NaN THEN NaN ELSE x + 1

\* A stats object.  set = FALSE is a falsy value under the key (nothing stored);
\* hasHistory = FALSE is an object without a history array.
Stats(t, s, l, h) ==
    [set |-> TRUE, totalArticles |-> t, totalTime |-> 0, streak |-> s,
     lastReadDate |-> l, history |-> h, hasHistory |-> TRUE]

ZeroStats == Stats(0, 0, NullDate, <<>>)

Absent == [ZeroStats EXCEPT !.set = FALSE]

\* data.readingStats || { totalArticles: 0, ... }
getReadingStats(stored) == IF stored.set THEN stored ELSE ZeroStats

\* Streak logic of trackArticleRead: the streak after a read on `today`.
StreakFutureKept(stats, today) ==
    IF stats.lastReadDate.k # "null"
    THEN LET lastDate == ParseDate(stats.lastReadDate)
             yesterday == SetDate(today, today.d - 1)
         IN  IF ToDateString(lastDate) = ToDateString(yesterday) THEN Inc(stats.streak)
             ELSE IF lastDate.k = "day" /\ Ordinal(lastDate) < Ordinal(today) THEN 1
             ELSE stats.streak
    ELSE 1

StreakStep(stats, today) ==
    IF stats.lastReadDate.k # "null"
    THEN LET lastDate == ParseDate(stats.lastReadDate)
             yesterday == SetDate(today, today.d - 1)
         IN  IF ToDateString(lastDate) = ToDateString(yesterday) THEN Inc(stats.streak)
             ELSE IF ToDateString(lastDate) # ToDateString(today) THEN 1
             ELSE stats.streak
    ELSE 1

\* stats.history.find(h => h.date === today): the first index, 0 when none.
FindEntry(history, today) ==
    IF \E i \in 1..Len(history) : history[i].date = today
    THEN CHOOSE i \in 1..Len(history) :
            /\ history[i].date = today
            /\ \A j \in 1..(i - 1) : history[j].date # today
    ELSE 0

\* History (last 30 days): count today's entry up, or push one and shift.
HistoryAlwaysPush(history, today) ==
    LET pushed == Append(history, [date |-> today, count |-> 1])
    IN  IF Len(pushed) > HISTORY_CAP THEN Tail(pushed) ELSE pushed

HistoryPop(history, today) ==
    LET i == FindEntry(history, today)
    IN  IF i # 0 THEN [history EXCEPT ![i].count = Inc(history[i].count)]
        ELSE LET pushed == Append(history, [date |-> today, count |-> 1])
             IN  IF Len(pushed) > HISTORY_CAP THEN SubSeq(pushed, 1, Len(pushed) - 1)
                 ELSE pushed

HistoryStep(history, today) ==
    LET i == FindEntry(history, today)
    IN  IF i # 0 THEN [history EXCEPT ![i].count = Inc(history[i].count)]
        ELSE LET pushed == Append(history, [date |-> today, count |-> 1])
             IN  IF Len(pushed) > HISTORY_CAP THEN Tail(pushed) ELSE pushed

\* The body of trackArticleRead after `await getReadingStats()`: the stats it
\* hands to chrome.storage.local.set, or a TypeError (threw) when stats.history
\* is undefined and nothing is stored.  The body runs without a break, and
\* its two readings of the clock (today, yesterday) are of the same day.
TrackNoCount(stats, clock) ==
    [threw |-> FALSE,
     stats |-> [stats EXCEPT !.streak = StreakStep(stats, ToDateString(clock)),
                             !.lastReadDate = ToDateString(clock),
                             !.history = HistoryStep(stats.history, ToDateString(clock))]]

TrackBody(stats, clock) ==
    LET today == ToDateString(clock)
    IN  IF ~stats.hasHistory
        THEN [threw |-> TRUE, stats |-> stats]
        ELSE [threw |-> FALSE,
              stats |-> [stats EXCEPT !.totalArticles = Inc(stats.totalArticles),
                                      !.streak = StreakStep(stats, today),
                                      !.lastReadDate = today,
                                      !.history = HistoryStep(stats.history, today)]]

NoCall == [prev |-> Absent, day |-> NullDate, outcome |-> "none"]
NoRace == [phase |-> "none", base |-> Absent, first |-> 0, overlapped |-> FALSE]
Callers == {1, 2}
Other(p) == IF p = 1 THEN 2 ELSE 1

\* What one finished call leaves behind: the stored value and the record of it.
Finish(stats, res) ==
    /\ storage' = IF res.threw THEN storage ELSE res.stats
    /\ last' = [prev |-> stats, day |-> ToDateString(now),
                outcome |-> IF res.threw THEN "threw" ELSE "ok"]
    /\ calls' = calls + 1
    /\ readDays' = IF res.threw THEN readDays ELSE readDays \cup {Ordinal(now)}

\* Today already has a read, or a call that failed.
ReadToday ==
    \/ storage.set /\ storage.lastReadDate = ToDateString(now)
    \/ last.day = ToDateString(now)

\* The system clock passes midnight k times.
Tick(k) ==
    /\ k <= daysLeft
    /\ daysLeft' = daysLeft - k
    /\ LET odd == IF k > 1 \/ ~ReadToday THEN 1 ELSE 0
       IN  /\ odd <= spare
           /\ spare' = spare - odd
    /\ now' = AddDays(now, k)
    /\ UNCHANGED <<storage, last, calls, readDays, pc, local, race, notStats>>

\* trackArticleRead(feedTitle), run to completion before the next event.
TrackArticleRead ==
    /\ LET odd == IF ReadToday THEN 1 ELSE 0
       IN  /\ odd <= spare
           /\ spare' = spare - odd
    /\ LET stats == getReadingStats(storage)
       IN  Finish(stats, TrackBody(stats, now))
    /\ UNCHANGED <<now, daysLeft, pc, local, race, notStats>>

Next == (\E k \in 1..MaxJump : Tick(k)) \/ TrackArticleRead

FmtIdle ==
    /\ text = <<>>
    /\ fmtOut = <<>>
    /\ fmtDone = FALSE

SanIdle ==
    /\ html = <<>>
    /\ out1 = <<>>
    /\ out2 = <<>>
    /\ passes = 0

EscIdle ==
    /\ unsafe = <<>>
    /\ escOut = <<>>
    /\ escDone = FALSE

NoKwCall == [op |-> "none", arg |-> <<>>, prev |-> NoKeywords, returned |-> FALSE,
             matches |-> <<>>]

KwIdle ==
    /\ keywords = NoKeywords
    /\ kwLast = NoKwCall

NoFeed == [threw |-> FALSE, title |-> Undefined, desc |-> Undefined, allArticles |-> <<>>]

FeedIdle ==
    /\ xml = [nodeName |-> <<>>, kids |-> <<>>]
    /\ tod = 0
    /\ feedPc = "start"
    /\ feedType = "none"
    /\ feed = NoFeed

ReadIdle ==
    /\ article = [title |-> <<>>, description |-> <<>>]
    /\ timeShown = <<>>

AgoIdle ==
    /\ agoDate = <<>>
    /\ agoClock = 0
    /\ agoOut = <<>>
    /\ agoDone = FALSE

HealthIdle ==
    /\ fetched = <<>>
    /\ dashClock = 0
    /\ badge = "loading"

\* A node of a parsed XML document as the generic renderer reads it:
\* nodeType is "element", "text", "cdata" or "comment".
GNode(nodeType, nodeName, nodeValue, childNodes) ==
    [nodeType |-> nodeType, nodeName |-> nodeName, nodeValue |-> nodeValue,
     childNodes |-> childNodes]

\* The page before anything is appended to it.
NoPage == [done |-> FALSE, threw |-> FALSE, tree |-> [kind |-> "null"]]

GenIdle ==
    /\ genRoot = GNode("element", <<"x">>, <<>>, <<>>)
    /\ genOut = NoPage

\* chrome.storage.local with nothing stored under any key.  A list-valued
\* key holds [set, list], set = FALSE when the key is absent.
EmptyStore ==
    [subscriptions |-> [set |-> FALSE, list |-> <<>>],
     readLater |-> [set |-> FALSE, list |-> <<>>],
     keywords |-> NoKeywords,
     readingStats |-> Absent,
     theme |-> "",
     feedViewMode |-> "",
     opmlBackup |-> [set |-> FALSE, list |-> <<>>],
     opmlBackupDate |-> 0,
     lastCheckedArticles |-> [set |-> FALSE, titles |-> <<>>]]

\* No operation yet.  changed holds the names of the properties an update
\* carried.
NoOp == [op |-> "none", url |-> <<>>, changed |-> {}, returned |-> FALSE, prev |-> EmptyStore]

StoreIdle ==
    /\ store = EmptyStore
    /\ opLast = NoOp
    /\ opsLeft = 0
    /\ checkLog = <<>>
    /\ actionBadge = <<>>

Tabs == {1, 2}

\* tabFeeds[tabId] when the object has no such property, and the value
\* tabFeeds[tabId] || null then gives.
NoEntry == [has |-> FALSE, feeds |-> <<>>]

\* The worker as its script leaves it, and the browser with no badge set.
TabIdle ==
    /\ tabFeeds = [t \in Tabs |-> NoEntry]
    /\ tabBadge = [t \in Tabs |-> <<>>]
    /\ tabLast = [kind |-> "none", tab |-> 0, answer |-> NoEntry,
                  feedsBefore |-> [t \in Tabs |-> NoEntry],
                  badgeBefore |-> [t \in Tabs |-> <<>>]]
    /\ announced = [t \in Tabs |-> NoEntry]
    /\ eventsLeft = 0

\* The reader as the script leaves it: let _articleList = [],
\* _currentArticleIndex = -1, no panel, no key handler.
NoReader == [list |-> <<>>, index |-> -1, panel |-> "none", shown |-> "",
             handler |-> FALSE, listeners |-> 0, reads |-> 0]

ReaderIdle ==
    /\ reader = NoReader
    /\ readerLast = [op |-> "none", direction |-> 0, before |-> NoReader]
    /\ readerLeft = 0

LaterIdle ==
    /\ ReaderIdle
    /\ ReadIdle
    /\ AgoIdle
    /\ HealthIdle
    /\ GenIdle
    /\ StoreIdle
    /\ TabIdle

Idle ==
    /\ FmtIdle
    /\ SanIdle
    /\ EscIdle
    /\ FeedIdle
    /\ KwIdle
    /\ LaterIdle
    /\ last = NoCall
    /\ calls = 0
    /\ readDays = {}
    /\ pc = [p \in Callers |-> "idle"]
    /\ local = [p \in Callers |-> ZeroStats]
    /\ race = NoRace

\* ---- serialized reads from the zero-value stats (Spec, SpecLong)

Init ==
    /\ now = StartDate
    /\ storage = Absent
    /\ daysLeft = MaxDay
    /\ spare = MaxIrregular
    /\ Idle

Spec == Init /\ [][Next]_vars

InitLong ==
    /\ now = LongStart
    /\ storage = Absent
    /\ daysLeft = LongDays
    /\ spare = LongIrregular
    /\ Idle

SpecLong == InitLong /\ [][Next]_vars

\* ---- serialized reads over arbitrary persisted stats (SpecAny)

AnyToday == {Day(2025, 12, 31), Day(2026, 1, 1), Day(2026, 3, 1)}

AnyLast == {NullDate, JunkDate, Day(2025, 12, 30), Day(2025, 12, 31), Day(2026, 1, 1),
            Day(2026, 2, 28), Day(2026, 3, 1), Day(2026, 3, 2)}

\* Values the key may hold: nothing, well-formed stats, and objects of an
\* unexpected shape (no history array, a counter that is no number, a
\* lastReadDate that is no date).
AnyStored ==
    {Absent} \cup
    { [Stats(t, s, l, h) EXCEPT !.hasHistory = hh] :
        t \in {NaN} \cup 0..AnyCount, s \in {NaN} \cup 0..AnyCount, l \in AnyLast,
        h \in {<<>>, <<[date |-> Day(2025, 12, 31), count |-> 1]>>},
        hh \in BOOLEAN }

WellFormed(stats) ==
    /\ stats.set
    /\ stats.hasHistory
    /\ stats.totalArticles # NaN
    /\ stats.streak # NaN
    /\ stats.lastReadDate.k \in {"null", "day"}

InitAny ==
    /\ now \in AnyToday
    /\ storage \in {st \in AnyStored : st.hasHistory \/ st.history = <<>>}
    /\ daysLeft = AnyDays
    /\ spare = AnyIrregular
    /\ Idle

SpecAny == InitAny /\ [][Next]_vars

\* ---- interleaved reads (SpecRace): each call is two steps, split at
\* `await getReadingStats()`

Started == calls + Cardinality({p \in Callers : pc[p] = "loaded"})

\* trackArticleRead up to the first await: chrome.storage.local.get resolves.
Load(p) ==
    /\ pc[p] = "idle"
    /\ Started < MaxRaceCalls
    /\ pc' = [pc EXCEPT ![p] = "loaded"]
    /\ local' = [local EXCEPT ![p] = getReadingStats(storage)]
    /\ race' = IF pc[Other(p)] = "loaded"
               THEN IF local[Other(p)] = getReadingStats(storage)
                    THEN [phase |-> "both", base |-> local[Other(p)], first |-> 0,
                          overlapped |-> TRUE]
                    ELSE [race EXCEPT !.overlapped = TRUE]
               ELSE race
    /\ UNCHANGED <<now, storage, last, calls, readDays, daysLeft, spare, notStats>>

\* trackArticleRead from there to chrome.storage.local.set.
Store(p) ==
    /\ pc[p] = "loaded"
    /\ pc' = [pc EXCEPT ![p] = "idle"]
    /\ Finish(local[p], TrackBody(local[p], now))
    /\ race' = IF race.phase = "both" THEN [race EXCEPT !.phase = "one", !.first = p]
               ELSE IF race.phase = "one" /\ race.first # p THEN [race EXCEPT !.phase = "lost"]
               ELSE [race EXCEPT !.phase = "none"]
    /\ UNCHANGED <<now, daysLeft, spare, local, notStats>>

RaceTick ==
    /\ daysLeft > 0
    /\ daysLeft' = daysLeft - 1
    /\ now' = NextDay(now)
    /\ UNCHANGED <<storage, last, calls, readDays, spare, pc, local, race, notStats>>

NextRace == (\E p \in Callers : Load(p) \/ Store(p)) \/ RaceTick

InitRace ==
    /\ now = StartDate
    /\ storage = Absent
    /\ daysLeft = MaxRaceDay
    /\ spare = 0
    /\ Idle

SpecRace == InitRace /\ [][NextRace]_vars

\* ------------------------------------------------- claims: reading stats

\* The number of consecutive days ending at day n that all lie in S.
RunLength(S, n) ==
    CHOOSE k \in 0..Cardinality(S) :
        /\ \A i \in 0..(k - 1) : (n - i) \in S
        /\ (n - k) \notin S

Day1 == StartDate
Day2 == AddDays(StartDate, 1)
Day5 == AddDays(StartDate, 4)

Entry(day, n) == [date |-> day, count |-> n]

\* C1: from the zero-value stats, with the clock never running backwards,
\* after every read the streak is the number of consecutive calendar days,
\* ending at the day of that read, that each have a read; in particular
\* day 1 -> 1, day 1 again -> 1 with count 2, day 2 -> 2, then day 5 -> 1.
C1_StreakCountsConsecutiveDays ==
    /\ last.outcome = "ok" =>
           storage.streak = RunLength(readDays, Ordinal(last.day))
    /\ (calls = 1 /\ readDays = {Ordinal(Day1)}) => storage.streak = 1
    /\ (calls = 2 /\ readDays = {Ordinal(Day1)}) =>
           storage.streak = 1 /\ storage.history = <<Entry(Day1, 2)>>
    /\ (calls = 3 /\ readDays = {Ordinal(Day1), Ordinal(Day2)}) => storage.streak = 2
    /\ (calls = 4 /\ readDays = {Ordinal(Day1), Ordinal(Day2), Ordinal(Day5)}) =>
           storage.streak = 1

C1_Witness ==
    /\ calls = 4
    /\ now = Day5
    /\ readDays = {Ordinal(Day1), Ordinal(Day2), Ordinal(Day5)}
    /\ storage.history = <<Entry(Day1, 2), Entry(Day2, 1), Entry(Day5, 1)>>
    /\ storage.streak = 1

\* The streak the four-case rule gives, stated on positions of the time line.
RuleStreak(prev, today) ==
    IF prev.lastReadDate.k = "null" THEN 1
    ELSE IF Ordinal(prev.lastReadDate) = Ordinal(today) - 1 THEN prev.streak + 1
    ELSE IF Ordinal(prev.lastReadDate) = Ordinal(today) THEN prev.streak
    ELSE 1

\* C2: for every well-formed prior stats and every today, one read sets the
\* streak by the four-case rule (unset -> 1, yesterday -> +1, today ->
\* unchanged, anything else, a future date included -> 1) and lastReadDate
\* to today.
C2_FourCaseRule ==
    (last.outcome = "ok" /\ WellFormed(last.prev)) =>
        /\ storage.streak = RuleStreak(last.prev, last.day)
        /\ storage.lastReadDate = last.day

C2_Witness ==
    /\ last.outcome = "ok"
    /\ WellFormed(last.prev)
    /\ last.prev.lastReadDate.k = "day"
    /\ Ordinal(last.prev.lastReadDate) > Ordinal(last.day)
    /\ last.prev.streak = 2
    /\ storage.streak = 1

NoDuplicateDates(history) ==
    \A i, j \in 1..Len(history) : i # j => history[i].date # history[j].date

\* C3: after any sequence of reads from the zero-value stats, no two history
\* entries have the same date; a read on a day that has an entry counts that
\* entry up and appends nothing.
C3_HistoryUniquePerDate ==
    /\ NoDuplicateDates(storage.history)
    /\ last.outcome = "ok" =>
           \A i \in 1..Len(last.prev.history) :
               last.prev.history[i].date = last.day =>
                   /\ Len(storage.history) = Len(last.prev.history)
                   /\ storage.history[i].count = last.prev.history[i].count + 1

C3_Witness ==
    /\ calls > HISTORY_CAP + 1
    /\ Len(storage.history) = HISTORY_CAP
    /\ storage.history[HISTORY_CAP].count = 2
    /\ Len(last.prev.history) = HISTORY_CAP

Evicting ==
    /\ last.outcome = "ok"
    /\ Len(last.prev.history) = HISTORY_CAP
    /\ \A i \in 1..HISTORY_CAP : last.prev.history[i].date # last.day

\* C4: the history never holds more than 30 entries; a read on a new day
\* that would make it 31 evicts exactly the front entry and keeps the order
\* of the rest.
C4_HistoryCappedFifo ==
    /\ Len(storage.history) <= 30
    /\ Evicting => storage.history = Append(Tail(last.prev.history), Entry(last.day, 1))

C4_Witness == Evicting /\ last.prev.history[1].count = 2

CountOn(history, day) ==
    IF \E i \in 1..Len(history) : history[i].date = day
    THEN history[CHOOSE i \in 1..Len(history) : history[i].date = day].count
    ELSE 0

\* C5: when two calls both load the stats before either stores, one update is
\* lost: totalArticles and today's history count end one above the common
\* snapshot, not two; when no call starts while another is in flight, n
\* finished reads leave totalArticles = n.
C5_LostUpdateWhenInterleaved ==
    /\ race.phase = "lost" =>
           /\ storage.totalArticles = race.base.totalArticles + 1
           /\ CountOn(storage.history, last.day) = CountOn(race.base.history, last.day) + 1
    /\ ~race.overlapped => storage.totalArticles = calls

C5_Witness ==
    /\ race.phase = "lost"
    /\ calls = 2
    /\ storage.totalArticles = 1
    /\ storage.history = <<Entry(now, 1)>>

\* C6: when the persisted stats are absent or malformed, trackArticleRead
\* does not fail and stores what a read from the zero-value baseline stores.
C6_CorruptionTreatedAsZero ==
    (last.outcome # "none" /\ (last.prev = ZeroStats \/ ~WellFormed(last.prev))) =>
        /\ last.outcome = "ok"
        /\ storage = Stats(1, 1, last.day, <<Entry(last.day, 1)>>)

\* ---- formatValue over bounded texts (SpecFmt)

StatsIdle ==
    /\ now = StartDate
    /\ storage = Absent
    /\ daysLeft = 0
    /\ spare = 0
    /\ last = NoCall
    /\ calls = 0
    /\ readDays = {}
    /\ pc = [p \in Callers |-> "idle"]
    /\ local = [p \in Callers |-> ZeroStats]
    /\ race = NoRace

\* The parts a text is put together from.
Parts == {Http, Https, <<"a">>, <<" ">>, <<"<">>, <<">">>, <<"&">>, <<"\"">>, <<"'">>}

RECURSIVE Joined(_)
Joined(parts) == IF parts = <<>> THEN <<>> ELSE Head(parts) \o Joined(Tail(parts))

Texts == { Joined(ps) : ps \in UNION { [1..n -> Parts] : n \in 0..MaxParts } }

InitFmt ==
    /\ text \in Texts
    /\ fmtOut = <<>>
    /\ fmtDone = FALSE
    /\ StatsIdle
    /\ SanIdle
    /\ EscIdle
    /\ FeedIdle
    /\ KwIdle
    /\ LaterIdle

\* renderGeneric, leaf: ... ${formatValue(text)} ...
FormatValue ==
    /\ ~fmtDone
    /\ fmtOut' = formatValue(text)
    /\ fmtDone' = TRUE
    /\ UNCHANGED <<text, notFmt>>


SpecFmt == InitFmt /\ [][FormatValue]_vars

\* ----------------------------------------------------- claims: formatValue

Specials == {"&", "<", ">", "\"", "'"}

Entities == {AmpEntity, LtEntity, GtEntity, QuotEntity, AposEntity}

\* No special character stands unescaped in s: none of < > " ' occurs, and
\* every & starts an entity.
Escaped(s) ==
    \A i \in 1..Len(s) :
        /\ s[i] \notin (Specials \ {"&"})
        /\ s[i] = "&" => \E e \in Entities : HasPrefix(s, i, e)

\* C7: formatValue escapes the whole text before it wraps the urls: the
\* characters & < > " ' of the input, inside or outside a url, reach the
\* output only escaped, so the anchors are the only markup of the output.
C7_FormatValueEscapesAll ==
    fmtDone => \A i \in 1..Len(fmtOut) : fmtOut[i].markup \/ Escaped(fmtOut[i].s)

\* ---- sanitizeHtml over bounded markup (SpecSan)

OnError == [name |-> <<"o", "n", "e", "r", "r", "o", "r">>, value |-> <<"a">>]
JsHref == [name |-> <<"h", "r", "e", "f">>,
           value |-> <<" ", "J", "a", "v", "a", "S", "c", "r", "i", "p", "t", ":", "a">>]
DataSrc == [name |-> <<"s", "r", "c">>, value |-> <<"d", "a", "t", "a", ":", "a">>]
AltOn == [name |-> <<"a", "l", "t">>, value |-> <<"o", "n">>]

\* The character x occurs only in text below a denylisted element.
Hidden == TextNode(<<"x">>)
Script == Element("script", <<>>, <<Hidden>>)
Style == Element("style", <<>>, <<TextNode(<<"a">>)>>)

Leaves ==
    {TextNode(<<"a">>), TextNode(<<" ">>), TextNode(<<" ", "a">>), Script, Style,
     Element("iframe", <<>>, <<>>), Element("link", <<AltOn>>, <<>>)}
    \cup { Element("img", attrs, <<>>) :
             attrs \in {<<>>, <<OnError>>, <<JsHref>>, <<DataSrc>>, <<AltOn>>, <<OnError, AltOn>>} }

Branches ==
    { Element("div", <<>>, kids) :
        kids \in {<<>>, <<Script>>, <<TextNode(<<"a">>), Script, TextNode(<<"a">>)>>,
                  <<Element("img", <<OnError, AltOn>>, <<>>)>>,
                  <<Element("form", <<>>, <<Hidden>>), Style>>} }
    \cup { Element("form", <<AltOn>>, kids) :
             kids \in {<<>>, <<Hidden>>, <<Element("p", <<>>, <<Hidden>>)>>} }
    \cup { Template(content) :
             content \in {<<>>, <<TextNode(<<"a">>)>>, <<Script>>,
                          <<Element("img", <<OnError>>, <<>>)>>} }

Markups == UNION { [1..n -> Leaves \cup Branches] : n \in 0..MaxNodes }

InitSan ==
    /\ html \in Markups
    /\ out1 = <<>>
    /\ out2 = <<>>
    /\ passes = 0
    /\ StatsIdle
    /\ FmtIdle
    /\ EscIdle
    /\ FeedIdle
    /\ KwIdle
    /\ LaterIdle

\* sanitizeHtml(article.content)
Sanitize ==
    /\ passes = 0
    /\ out1' = sanitizeHtml(html)
    /\ passes' = 1
    /\ UNCHANGED <<html, out2, notSan>>

\* sanitizeHtml applied to its own output
SanitizeAgain ==
    /\ passes = 1
    /\ out2' = sanitizeHtml(out1)
    /\ passes' = 2
    /\ UNCHANGED <<html, out1, notSan>>

NextSan == Sanitize \/ SanitizeAgain

SpecSan == InitSan /\ [][NextSan]_vars

\* ---------------------------------------------------- claims: sanitizeHtml

\* Every node the markup writes out, template contents included, in document
\* order.
RECURSIVE NodesOf(_)
NodesOf(f) ==
    IF f = <<>> THEN <<>>
    ELSE <<Head(f)>> \o NodesOf(Head(f).kids) \o NodesOf(Head(f).content) \o NodesOf(Tail(f))

Denylist == {"script", "iframe", "object", "embed", "form", "base", "head", "meta", "link"}

\* C8: the output of sanitizeHtml holds no element with a denylisted tag and
\* none of the content of a removed subtree (the text of a script).
C8_NoDenylistedElement ==
    passes >= 1 =>
        \A i \in 1..Len(NodesOf(out1)) :
            LET n == NodesOf(out1)[i]
            IN  /\ n.tag \notin Denylist
                /\ IsText(n) => \A k \in 1..Len(n.data) : n.data[k] # "x"

\* The nodes of the document tree alone: template contents left out.
RECURSIVE TreeNodesOf(_)
TreeNodesOf(f) ==
    IF f = <<>> THEN <<>>
    ELSE <<Head(f)>> \o TreeNodesOf(Head(f).kids) \o TreeNodesOf(Tail(f))

\* What does hold of C8 and C9: among the nodes that are children in the
\* tree, none has a denylisted tag, a removed text or a dangerous attribute.
SanitizedOutsideTemplates ==
    passes >= 1 =>
        \A i \in 1..Len(TreeNodesOf(out1)) :
            LET n == TreeNodesOf(out1)[i]
            IN  /\ n.tag \notin Denylist
                /\ IsText(n) => \A k \in 1..Len(n.data) : n.data[k] # "x"
                /\ \A k \in 1..Len(n.attrs) : ~DangerousAttr(n.attrs[k])

\* What does hold of C10: a second pass changes nothing unless the first
\* output begins with white space or with an element the parser puts in the
\* head.
IdempotentUnlessHeadFirst ==
    (passes = 2 /\ out1 # <<>>) =>
        \/ out2 = out1
        \/ IsText(Head(out1)) /\ IsSpace(Head(Head(out1).data))
        \/ Head(out1).tag \in HeadPlaced

\* The attributes the claim lets stay.
Harmless(attr) ==
    /\ ~HasPrefix(attr.name, 1, <<"o", "n">>)
    /\ ~HasPrefix(toLowerCase(trim(attr.value)), 1, <<"j", "a", "v", "a", "s", "c", "r", "i", "p", "t", ":">>)
    /\ ~HasPrefix(toLowerCase(trim(attr.value)), 1, <<"d", "a", "t", "a", ":">>)

\* The elements of a forest in document order, each with its tag and the
\* harmless ones of its attributes.
HarmlessPart(f) ==
    LET els == SelectSeq(NodesOf(f), LAMBDA n : ~IsText(n))
    IN  [i \in 1..Len(els) |->
            [tag |-> els[i].tag, attrs |-> SelectSeq(els[i].attrs, Harmless)]]

\* The elements that survive the removal of the denylisted subtrees.
Survivors(markup) ==
    LET doc == RemoveBadFrom(<<parseFromString(markup)>>, badTags, 1)
    IN  bodyInnerHTML(Head(doc))

\* C9: no element of the output keeps an attribute whose name begins with
\* "on" or whose trimmed, lower-cased value begins with "javascript:" or
\* "data:", and every other attribute of a surviving element is kept.
C9_NoDangerousAttribute ==
    passes >= 1 =>
        /\ \A i \in 1..Len(NodesOf(out1)) :
               \A k \in 1..Len(NodesOf(out1)[i].attrs) : Harmless(NodesOf(out1)[i].attrs[k])
        /\ HarmlessPart(out1) = HarmlessPart(Survivors(html))

\* C10: sanitizeHtml(sanitizeHtml(x)) = sanitizeHtml(x).
C10_Idempotent == passes = 2 => out2 = out1


\* ---- escapeHtml over bounded arguments (SpecEsc)

InitEsc ==
    /\ unsafe \in Texts \cup {Undefined, Null}
    /\ escOut = <<>>
    /\ escDone = FALSE
    /\ StatsIdle
    /\ FmtIdle
    /\ SanIdle
    /\ FeedIdle
    /\ KwIdle
    /\ LaterIdle

\* escapeHtml(article.title) and the like
EscapeHtml ==
    /\ ~escDone
    /\ escOut' = escapeHtml(unsafe)
    /\ escDone' = TRUE
    /\ UNCHANGED <<unsafe, notEsc>>


SpecEsc == InitEsc /\ [][EscapeHtml]_vars

\* ------------------------------------------------------ claims: escapeHtml

\* C11: for every string, and for null and undefined (taken as the empty
\* string), the output of escapeHtml holds no literal < > " or ', and every &
\* of it starts one of the entities &amp; &lt; &gt; &quot; &#039;.
C11_EscapeHtmlOutput ==
    escDone =>
        /\ \A i \in 1..Len(escOut) :
               /\ escOut[i] \notin {"<", ">", "\"", "'"}
               /\ escOut[i] = "&" =>
                      \E e \in {AmpEntity, LtEntity, GtEntity, QuotEntity, AposEntity} :
                          HasPrefix(escOut, i, e)
        /\ unsafe \in {Undefined, Null} => escOut = <<>>

\* An argument with an ampersand, an angle bracket and an apostrophe has
\* been escaped.
C11_Witness ==
    /\ escDone
    /\ {"&", "<", "'"} \subseteq {unsafe[i] : i \in 1..Len(unsafe)}
    /\ Len(escOut) > Len(unsafe)


\* ---- the reader page on bounded documents (SpecDetect, SpecFeed)

\* data.currentFeedUrl
FeedUrl == Http \o <<"f">>

ImgUrl == Http \o <<"i">>
EncUrl == Http \o <<"e">>
MediaUrl == Https \o <<"m">>
ThumbUrl == Http \o <<"t">>

Today == <<"2", "0", "2", "5", "-", "1", "2", "-", "2", "9">>
Older == <<"2", "0", "2", "5", "-", "0", "1", "-", "0", "1">>
Soon == <<"s", "o", "o", "n">>

Attr(name, value) == [name |-> name, value |-> value]

\* <img src="..."> as characters
ImgTag(src) == <<"<", "i", "m", "g", " ", "s", "r", "c", "=", "\"">> \o src \o <<"\"", ">">>
ImgBare == <<"<", "i", "m", "g", ">">>

\* <p>...</p> as characters
Para(chars) == <<"<", "p", ">">> \o chars \o <<"<", "/", "p", ">">>

StyleChars == <<"<", "s", "t", "y", "l", "e", ">", "s", "<", "/", "s", "t", "y", "l", "e", ">">>

Repeat(c, n) == [i \in 1..n |-> c]

Field(localName, chars) == XElem("", localName, <<>>, chars, <<>>)

MediaContent(attrs) == XElem("media", "content", attrs, <<>>, <<>>)

\* Child elements an item takes its image from.
ImageFields ==
    {Field("description", <<"d">>),
     Field("description", <<"d">> \o ImgTag(ImgUrl) \o ImgTag(EncUrl)),
     Field("description", Para(ImgTag(<<"r">>))),
     Field("description", ImgBare),
     XElem("", "enclosure", <<Attr(Type, Image \o <<"/", "j">>), Attr(Url, EncUrl)>>, <<>>, <<>>),
     XElem("", "enclosure", <<Attr(Type, <<"a", "u", "d", "i", "o">>), Attr(Url, EncUrl)>>, <<>>, <<>>),
     MediaContent(<<Attr(Medium, Image), Attr(Url, MediaUrl)>>),
     MediaContent(<<Attr(Medium, Image)>>),
     MediaContent(<<Attr(Medium, <<"v">>), Attr(Url, MediaUrl)>>),
     XElem("media", "group", <<>>, <<>>, <<MediaContent(<<Attr(Medium, Image), Attr(Url, MediaUrl)>>)>>),
     XElem("media", "thumbnail", <<Attr(Url, ThumbUrl)>>, <<>>, <<>>)}

\* Child elements an item takes its content and its description from.
ContentFields ==
    {XElem("content", "encoded", <<>>, Para(<<"e">>), <<>>),
     XElem("content", "encoded", <<>>, <<>>, <<>>),
     Field("content", <<"c">>),
     Field("content", <<>>),
     MediaContent(<<Attr(Medium, Image), Attr(Url, MediaUrl)>>),
     Field("description", <<"d">>),
     Field("description", <<>>),
     Field("summary", <<"s">>)}

\* Child elements an item takes its title, its link and its date from.
DateFields ==
    {Field("title", <<"T">>),
     Field("title", <<>>),
     Field("link", Http \o <<"l">>),
     XElem("", "link", <<Attr(Href, Https \o <<"l">>)>>, <<>>, <<>>),
     Field("link", <<>>),
     Field("pubDate", Today),
     Field("pubDate", Soon),
     Field("pubDate", <<>>),
     Field("updated", Older),
     XElem("dc", "date", <<>>, Today, <<>>),
     XElem("dc", "date", <<>>, <<>>, <<>>)}

\* Descriptions whose plain text is about as long as the summary may be.
SummaryFields ==
    { Field("description", pre \o Repeat("a", n) \o post) :
        n \in (SUMMARY_MAX - 1)..(SUMMARY_MAX + MaxOver),
        pre \in {<<>>, <<" ">>, <<"<", "p", ">">>, StyleChars, Para(<<"b">>)},
        post \in {<<>>, ImgTag(ImgUrl), <<" ">>} }

ItemsOver(fields) ==
    { XElem("", "item", <<>>, <<>>, kids) : kids \in UNION { [1..n -> fields] : n \in 0..MaxFields } }

Items ==
    ItemsOver(ImageFields) \cup ItemsOver(ContentFields) \cup ItemsOver(DateFields)
    \cup { XElem("", "item", <<>>, <<>>, <<f>>) : f \in SummaryFields }

\* The items of the documents that hold several.
FewItems ==
    {XElem("", "item", <<>>, <<>>, <<>>),
     XElem("", "item", <<>>, <<>>, <<Field("title", <<"T">>), Field("description", <<"d">>)>>)}

ItemLists == UNION { [1..n -> FewItems] : n \in 0..MaxItems }

AsEntry(items) == [i \in 1..Len(items) |-> [items[i] EXCEPT !.local = "entry"]]

Channel(kids) == XElem("", "channel", <<>>, <<>>, kids)

\* The documents: RSS 2.0 with its items in the channel, RSS whose channel
\* has no title, RSS 1.0 with its items beside the channel, RSS without a
\* channel, Atom with and without a title.
Shapes(items) ==
    {[nodeName |-> RssName,
      kids |-> <<Channel(<<Field("title", <<"F">>), Field("description", <<"D">>)>> \o items)>>],
     [nodeName |-> RssName, kids |-> <<Channel(items)>>],
     [nodeName |-> <<"r", "d", "f", ":", "R", "D", "F">>,
      kids |-> <<Channel(<<Field("title", <<"F">>)>>)>> \o items],
     [nodeName |-> RssName, kids |-> items],
     [nodeName |-> FeedName,
      kids |-> <<Field("title", <<"F">>), Field("subtitle", <<"S">>)>> \o AsEntry(items)],
     [nodeName |-> FeedName, kids |-> AsEntry(items)]}

Documents ==
    UNION { Shapes(items) : items \in ItemLists }
    \cup { [nodeName |-> RssName, kids |-> <<Channel(<<it>>)>>] : it \in Items }

\* Seconds into the day at which the page is opened.
FeedTimes == {0, 7201}

InitFeed ==
    /\ xml \in Documents
    /\ tod \in FeedTimes
    /\ feedPc = "start"
    /\ feedType = "none"
    /\ feed = NoFeed
    /\ StatsIdle
    /\ FmtIdle
    /\ SanIdle
    /\ EscIdle
    /\ KwIdle
    /\ LaterIdle

\* const type = detectType(root)
DetectType ==
    /\ feedPc = "start"
    /\ feedType' = detectType(xml.nodeName)
    /\ feedPc' = "detected"
    /\ UNCHANGED <<xml, tod, feed, notFeed>>

\* if (type === "rss" || type === "atom") ... renderSmartFeed(doc, type, ...)
RenderFeed ==
    /\ feedPc = "detected"
    /\ feedType \in {"rss", "atom"}
    /\ feed' = renderSmartFeed(xml, feedType, FeedUrl, ClockSeconds(now, tod))
    /\ feedPc' = "rendered"
    /\ UNCHANGED <<xml, tod, feedType, notFeed>>

NextFeed == DetectType \/ RenderFeed

SpecFeed == InitFeed /\ [][NextFeed]_vars

NameParts ==
    {RssName, <<"R", "S", "S">>, <<"r", "d", "f">>, <<"R", "D", "F">>, <<":">>, FeedName,
     <<"F", "e", "e", "d">>, UrlsetName, <<"a", "t", "o", "m">>, <<"s">>, <<"h", "t", "m", "l">>}

NodeNames == { Joined(ps) : ps \in UNION { [1..n -> NameParts] : n \in 1..MaxNameParts } }

\* What the document element holds, in the runs over node names.
RootKids == {<<>>, <<Channel(<<>>)>>, <<Field("feed", <<>>), Field("urlset", <<>>)>>}

InitDetect ==
    /\ xml \in { [nodeName |-> n, kids |-> kids] : n \in NodeNames, kids \in RootKids }
    /\ tod = 0
    /\ feedPc = "start"
    /\ feedType = "none"
    /\ feed = NoFeed
    /\ StatsIdle
    /\ FmtIdle
    /\ SanIdle
    /\ EscIdle
    /\ KwIdle
    /\ LaterIdle

SpecDetect == InitDetect /\ [][NextFeed]_vars


\* ------------------------------------------------- claims: the reader page

Rendered == feedPc = "rendered"

\* The item or entry elements of the document, in document order.
FeedItems == querySelectorAll(xml.kids, IF feedType = "rss" THEN "item" ELSE "entry")

\* The first value of a chain that is no empty string, undefined or null;
\* null when there is none.
FirstNonEmpty(chain) ==
    IF \E i \in 1..Len(chain) : ~Falsy(chain[i])
    THEN chain[CHOOSE i \in 1..Len(chain) :
                   ~Falsy(chain[i]) /\ \A k \in 1..(i - 1) : Falsy(chain[k])]
    ELSE Null

\* C12: for every document detected as rss or atom, the extraction of
\* renderSmartFeed does not throw, whatever field or container is missing
\* (channel, title, link, date, description, content, image), and gives one
\* article per item: none for a document without items.
C12_ExtractionNeverThrows ==
    Rendered =>
        /\ ~feed.threw
        /\ Len(feed.allArticles) = Len(FeedItems)

\* The image candidates of an item, in the order of the claim: the first
\* <img> of the description HTML, the enclosure if it has an image MIME type,
\* a namespaced content element with medium="image", a namespaced thumbnail;
\* null stands for a candidate that is not there.
ImageCandidates(item, description) ==
    LET enclosure == querySelector(item.kids, "enclosure")
        imageType == /\ enclosure.local # "#none"
                     /\ startsWith(OrEmpty(getAttribute(enclosure, Type)), Image)
        media == SelectSeq(getElementsByTagNameNS(item.kids, "content"),
                           LAMBDA x : getAttribute(x, Medium) = Image)
        thumbnails == getElementsByTagNameNS(item.kids, "thumbnail")
    IN  <<extractImage(description),
          IF imageType THEN getAttribute(enclosure, Url) ELSE Null,
          IF media = <<>> THEN Null ELSE getAttribute(Head(media), Url),
          IF thumbnails = <<>> THEN Null ELSE getAttribute(Head(thumbnails), Url)>>

\* C13: the image of every article is the first non-empty candidate in the
\* order description <img>, image enclosure, media content, thumbnail: a
\* later candidate never replaces an earlier one, and the image is null when
\* there is no candidate.
C13_ImageFirstCandidate ==
    (Rendered /\ ~feed.threw) =>
        \A i \in 1..Len(feed.allArticles) :
            LET image == feed.allArticles[i].image
                cands == ImageCandidates(FeedItems[i], feed.allArticles[i].description)
            IN  /\ (\E k \in 1..4 : ~Falsy(cands[k])) => image = FirstNonEmpty(cands)
                /\ (\A k \in 1..4 : Falsy(cands[k])) => Falsy(image)
                /\ (\A k \in 1..4 : cands[k] = Null) => image = Null

\* C14: detectType is a total function of the node name of the root alone:
\* rss and rdf:rdf give rss, feed gives atom, urlset gives sitemap and every
\* other name generic, whatever the document holds; letter case apart, as the
\* code compares the lower-cased name.
C14_DetectTypeByRootName ==
    feedPc # "start" =>
        LET lower == toLowerCase(xml.nodeName)
        IN  /\ feedType \in {"rss", "atom", "sitemap", "generic"}
            /\ feedType = "rss" <=> lower \in {RssName, RdfName}
            /\ feedType = "atom" <=> lower = FeedName
            /\ feedType = "sitemap" <=> lower = UrlsetName
            /\ xml.nodeName \in {RssName, RdfName, <<"r", "d", "f", ":", "R", "D", "F">>}
                   => feedType = "rss"

\* The root rdf:RDF, holding a channel, was detected as rss.
C14_Witness ==
    /\ feedPc # "start"
    /\ xml.nodeName = <<"r", "d", "f", ":", "R", "D", "F">>
    /\ xml.kids # <<>>
    /\ feedType = "rss"

\* The text of the first element of that local name among the descendants of
\* the item, the empty string when there is none.
FirstText(item, localName) ==
    LET found == SelectSeq(Descendants(item.kids), LAMBDA x : x.local = localName)
    IN  IF found = <<>> THEN <<>> ELSE XmlText(<<Head(found)>>)

C16_TextSummaryBounded ==
    (Rendered /\ ~feed.threw) =>
        \A i \in 1..Len(feed.allArticles) :
            LET a == feed.allArticles[i]
                t == rawText(a.description)
            IN  /\ Len(t) <= SUMMARY_MAX => a.textSummary = t
                /\ Len(t) > SUMMARY_MAX =>
                       /\ Len(a.textSummary) = SUMMARY_MAX + Len(Ellipsis)
                       /\ \A k \in 1..SUMMARY_MAX : a.textSummary[k] = t[k]
                       /\ \A k \in 1..Len(Ellipsis) :
                              a.textSummary[SUMMARY_MAX + k] = Ellipsis[k]

\* A description with markup, whose plain text is one character over the
\* limit, was cut.
C16_Witness ==
    /\ Rendered
    /\ \E i \in 1..Len(feed.allArticles) :
           /\ Len(rawText(feed.allArticles[i].description)) = SUMMARY_MAX + 1
           /\ Len(feed.allArticles[i].description) > SUMMARY_MAX + 1
           /\ Len(feed.allArticles[i].textSummary) = SUMMARY_MAX + Len(Ellipsis)

\* The texts of the date elements of an item, in the order of the chain.
DateChain(item) ==
    <<TextOf(querySelector(item.kids, "pubDate")), TextOf(querySelector(item.kids, "updated")),
      TextOf(querySelector(item.kids, "date"))>>

\* C17: the date field of every article is the first non-empty of pubDate,
\* updated and date, as the unparsed source string, and null when none of
\* the three is there.
C17_DateIsSourceString ==
    (Rendered /\ ~feed.threw) =>
        \A i \in 1..Len(feed.allArticles) :
            feed.allArticles[i].date = FirstNonEmpty(DateChain(FeedItems[i]))

\* C17, amended: it is the originalDate field that holds the first non-empty
\* of pubDate, updated and date as the unparsed source string, and undefined
\* or the empty string when none of the three is there or non-empty; the date
\* field holds the relative time timeAgo makes of that string (the string
\* itself when no date is read from it), and the empty string when there is
\* none.
C17_OriginalDateIsSourceString ==
    (Rendered /\ ~feed.threw) =>
        \A i \in 1..Len(feed.allArticles) :
            LET a == feed.allArticles[i]
                chain == DateChain(FeedItems[i])
            IN  /\ (\E k \in 1..3 : ~Falsy(chain[k])) => a.originalDate = FirstNonEmpty(chain)
                /\ (\A k \in 1..3 : Falsy(chain[k])) => a.originalDate \in {Undefined, <<>>}
                /\ Falsy(a.originalDate) => a.date = <<>>
                /\ ~Falsy(a.originalDate) =>
                       a.date = timeAgo(a.originalDate, ClockSeconds(now, tod))

\* An item with an empty pubDate and an updated element of an earlier day:
\* originalDate is that day as written, date the relative time.
C17_Witness ==
    /\ Rendered
    /\ \E i \in 1..Len(feed.allArticles) :
           /\ DateChain(FeedItems[i])[1] = <<>>
           /\ feed.allArticles[i].originalDate = Older
           /\ feed.allArticles[i].date # Older
           /\ feed.allArticles[i].date # <<>>


\* ---- the keyword watchlist, one call at a time (SpecKw)

Ai == <<"a", "i">>

Artificial ==
    <<"A", "r", "t", "i", "f", "i", "c", "i", "a", "l", " ", "i", "n", "t", "e", "l", "l",
      "i", "g", "e", "n", "c", "e", " ", "b", "r", "e", "a", "k", "t", "h", "r", "o", "u",
      "g", "h", "s">>

AiBreakthroughs ==
    <<"A", "I", " ", "b", "r", "e", "a", "k", "t", "h", "r", "o", "u", "g", "h", "s">>

\* What is typed into the watchlist, and what removeKeyword is called with.
KeywordInputs ==
    {Ai, <<"A", "I">>, <<" ", "A", "i", " ">>, <<>>, <<" ">>, <<"\t", "\n">>, <<"b">>,
     <<"\t", "B", "\n">>, <<"a", " ", "B">>, <<"a", " ", "b">>}

\* card.dataset.search
SearchTexts ==
    {<<>>, Ai, <<"A", "I">>, <<"a">>, <<"r", "A", "i", "n">>, <<"a", " ", "i">>,
     <<"x", " ", "A", " ", "B", " ", "b">>, Artificial, AiBreakthroughs}

InitKw ==
    /\ keywords = NoKeywords
    /\ kwLast = NoKwCall
    /\ StatsIdle
    /\ FmtIdle
    /\ SanIdle
    /\ EscIdle
    /\ FeedIdle
    /\ LaterIdle

AddKeyword(k) ==
    /\ LET res == addKeyword(keywords, k)
       IN  /\ keywords' = res.stored
           /\ kwLast' = [op |-> "add", arg |-> k, prev |-> keywords,
                          returned |-> res.returned, matches |-> <<>>]
    /\ UNCHANGED notKw

RemoveKeyword(k) ==
    /\ keywords' = removeKeyword(keywords, k)
    /\ kwLast' = [op |-> "remove", arg |-> k, prev |-> keywords, returned |-> FALSE,
                   matches |-> <<>>]
    /\ UNCHANGED notKw

\* getKeywords().then(keywords => ... matchesKeywords(searchText, keywords))
MatchKeywords(t) ==
    /\ kwLast' = [op |-> "match", arg |-> t, prev |-> keywords, returned |-> FALSE,
                   matches |-> matchesKeywords(t, getKeywords(keywords))]
    /\ UNCHANGED <<keywords, notKw>>

NextKw ==
    \/ \E k \in KeywordInputs : AddKeyword(k) \/ RemoveKeyword(k)
    \/ \E t \in SearchTexts : MatchKeywords(t)

SpecKw == InitKw /\ [][NextKw]_vars

\* ----------------------------------------------- claims: keyword watchlist

\* k occurs in t as a substring, the case of letters apart on both sides.
OccursIgnoringCase(k, t) ==
    \E i \in 1..(Len(t) - Len(k) + 1) :
        \A j \in 1..Len(k) : toLowerCase(<<t[i + j - 1]>>) = toLowerCase(<<k[j]>>)

\* C18: matchesKeywords returns exactly the keywords of the list, in list
\* order, that occur in the text as a substring when letter case is ignored
\* on both sides, and the empty list for an empty text or an empty list.
C18_MatchesAreSubstrings ==
    kwLast.op = "match" =>
        LET list == getKeywords(kwLast.prev)
        IN  /\ kwLast.matches = SelectSeq(list, LAMBDA k : OccursIgnoringCase(k, kwLast.arg))
            /\ (kwLast.arg = <<>> \/ list = <<>>) => kwLast.matches = <<>>

\* Of three stored keywords, the first and the third occur in a text with
\* capital letters and were returned in that order.
C18_Witness ==
    /\ kwLast.op = "match"
    /\ Len(getKeywords(kwLast.prev)) = 3
    /\ Len(kwLast.matches) = 2
    /\ kwLast.matches[1] = getKeywords(kwLast.prev)[1]
    /\ kwLast.matches[2] = getKeywords(kwLast.prev)[3]
    /\ \E i \in 1..Len(kwLast.arg) : kwLast.arg[i] = "B"

CapitalLetters == {UpperCase[i] : i \in 1..Len(UpperCase)}

\* C19: after any sequence of addKeyword and removeKeyword calls, each
\* finished before the next starts, the stored list holds only non-empty
\* keywords without capital letters and without white space at either end,
\* none of them twice; addKeyword of an empty or white-space keyword, or of
\* one that is already there once trimmed and lower-cased, returns false and
\* leaves what is stored as it was.
C19_KeywordSetInvariant ==
    /\ \A i \in 1..Len(keywords.list) :
           LET k == keywords.list[i]
           IN  /\ k # <<>>
               /\ ~IsSpace(k[1]) /\ ~IsSpace(k[Len(k)])
               /\ \A j \in 1..Len(k) : k[j] \notin CapitalLetters
               /\ \A h \in 1..Len(keywords.list) : keywords.list[h] = k => h = i
    /\ kwLast.op = "add" =>
           LET normalized == toLowerCase(trim(kwLast.arg))
               refused == normalized = <<>> \/ Includes(getKeywords(kwLast.prev), normalized)
           IN  /\ refused => (~kwLast.returned /\ keywords = kwLast.prev)
               /\ ~refused => (kwLast.returned /\
                                keywords.list = Append(getKeywords(kwLast.prev), normalized))

\* " Ai " was refused while "ai" was stored with another keyword.
C19_Witness ==
    /\ kwLast.op = "add"
    /\ kwLast.arg = <<" ", "A", "i", " ">>
    /\ ~kwLast.returned
    /\ Len(keywords.list) = 2
    /\ Includes(keywords.list, Ai)

\* C20: with the keyword set ["ai"] and the text "Artificial intelligence
\* breakthroughs", matchesKeywords returns ["ai"].
C20_ArtificialMatchesAi ==
    (kwLast.op = "match" /\ kwLast.arg = Artificial /\ getKeywords(kwLast.prev) = <<Ai>>)
        => kwLast.matches = <<Ai>>

\* C20, amended: with the keyword set ["ai"], matchesKeywords returns [] for
\* "Artificial intelligence breakthroughs", in which the letters a and i
\* nowhere follow one another in that order, and ["ai"] for "AI
\* breakthroughs".
C20_AiMatchesAsSubstring ==
    (kwLast.op = "match" /\ getKeywords(kwLast.prev) = <<Ai>>) =>
        /\ kwLast.arg = Artificial => kwLast.matches = <<>>
        /\ kwLast.arg = AiBreakthroughs => kwLast.matches = <<Ai>>

\* The example was run.
C20_Witness ==
    /\ kwLast.op = "match"
    /\ kwLast.arg = Artificial
    /\ getKeywords(kwLast.prev) = <<Ai>>
    /\ kwLast.matches = <<>>


\* ---- the cards of the feed view (SpecRead)

EarlyIdle ==
    /\ StatsIdle
    /\ FmtIdle
    /\ SanIdle
    /\ EscIdle
    /\ FeedIdle
    /\ KwIdle

\* n one-letter words with one space between them.
Words(n) == [i \in 1..(IF n = 0 THEN 0 ELSE 2 * n - 1) |-> IF i % 2 = 1 THEN "w" ELSE " "]

TitleWords == {1, 2, WORDS_PER_MINUTE}

DescWords ==
    {0, 49} \cup { k * WORDS_PER_MINUTE + d : k \in 1..MaxMinutes, d \in (0 - MaxSlack)..MaxSlack }

\* What may follow the last word of a description.
DescEnds == {<<>>, <<" ">>, <<"\n">>}

InitRead ==
    /\ \E t \in TitleWords, d \in DescWords, end \in DescEnds :
          article = [title |-> Words(t), description |-> Words(d) \o end]
    /\ timeShown = <<>>
    /\ EarlyIdle
    /\ ReaderIdle
    /\ TabIdle
    /\ StoreIdle
    /\ AgoIdle
    /\ HealthIdle
    /\ GenIdle

\* renderSmartFeed, second pass: the meta line of one card
RenderCard ==
    /\ timeShown = <<>>
    /\ timeShown' = timeString(article)
    /\ UNCHANGED <<article, notRead>>

SpecRead == InitRead /\ [][RenderCard]_vars

\* ------------------------------------------------------- claims: read time

\* The words of a text: its maximal runs of characters that are no white space.
WordCount(chars) ==
    Cardinality({i \in 1..Len(chars) :
                    ~IsSpace(chars[i]) /\ (i = 1 \/ IsSpace(chars[i - 1]))})

\* C21: the read time shown on a card is max(1, ceil(w / 200)) minutes, w the
\* number of words of the article's title and body together.
C21_ReadTimeByWords ==
    timeShown # <<>> =>
        LET w == WordCount(article.title) + WordCount(article.description)
            minutes == (w + 199) \div 200
        IN  timeShown = NumberChars(IF minutes < 1 THEN 1 ELSE minutes)
                            \o <<" ", "m", "i", "n", " ", "r", "e", "a", "d">>


\* ---- timeAgo at bounded distances from the clock (SpecAgo)

Units == {60, 3600, 86400, 2592000, 31536000}

\* Seconds between the date and the clock: around zero, and around the
\* whole multiples of every unit.
Elapsed ==
    { e : e \in (0 - MaxSkew)..MaxSkew }
        \cup { k * u + e : k \in 1..MaxUnits, u \in Units, e \in (0 - MaxSkew)..MaxSkew }

AgoDates == {Today, Older, Soon, <<>>, <<"2", "0", "2", "5", "-", "1", "3", "-", "0", "1">>}

InitAgo ==
    /\ agoDate \in AgoDates
    /\ \E s \in Elapsed :
          agoClock = (IF DateSeconds(agoDate) = NaN THEN DateSeconds(Today)
                      ELSE DateSeconds(agoDate)) + s
    /\ agoOut = <<>>
    /\ agoDone = FALSE
    /\ EarlyIdle
    /\ ReaderIdle
    /\ TabIdle
    /\ StoreIdle
    /\ ReadIdle
    /\ HealthIdle
    /\ GenIdle

\* date: itemDate ? timeAgo(itemDate) : ""
TimeAgo ==
    /\ ~agoDone
    /\ agoOut' = timeAgo(agoDate, agoClock)
    /\ agoDone' = TRUE
    /\ UNCHANGED <<agoDate, agoClock, notAgo>>

SpecAgo == InitAgo /\ [][TimeAgo]_vars

\* ---------------------------------------------------- claims: relative time

UnitName(u) ==
    IF u = 31536000 THEN <<"y", "e", "a", "r", "s">>
    ELSE IF u = 2592000 THEN <<"m", "o", "n", "t", "h", "s">>
    ELSE IF u = 86400 THEN <<"d", "a", "y", "s">>
    ELSE IF u = 3600 THEN <<"h", "o", "u", "r", "s">>
    ELSE <<"m", "i", "n", "u", "t", "e", "s">>

\* C22: for a date that parses, timeAgo gives "Just now" exactly when fewer
\* than 60 seconds passed, and else floor(s / d) of the largest unit whose
\* divisor d does not exceed the s seconds passed; a date that does not parse
\* is returned as it came.
C22_TimeAgoBuckets ==
    agoDone =>
        IF DateSeconds(agoDate) = NaN THEN agoOut = agoDate
        ELSE LET s == agoClock - DateSeconds(agoDate)
                 d == CHOOSE u \in Units : u <= s /\ \A v \in Units : v <= s => v <= u
             IN  IF s < 60 THEN agoOut = <<"J", "u", "s", "t", " ", "n", "o", "w">>
                 ELSE agoOut = NumberChars(s \div d) \o <<" ">> \o UnitName(d)
                                   \o <<" ", "a", "g", "o">>


\* ---- the dashboard card of one subscription (SpecHealth)

\* The day of the clock, and dates 0, 7, 8, 30 and 31 days before it and one
\* day after it.
DashDay == Day(2026, 1, 31)

DashDates ==
    {<<"2", "0", "2", "6", "-", "0", "1", "-", "3", "1">>,
     <<"2", "0", "2", "6", "-", "0", "1", "-", "2", "4">>,
     <<"2", "0", "2", "6", "-", "0", "1", "-", "2", "3">>,
     <<"2", "0", "2", "6", "-", "0", "1", "-", "0", "1">>,
     <<"2", "0", "2", "5", "-", "1", "2", "-", "3", "1">>,
     <<"2", "0", "2", "6", "-", "0", "2", "-", "0", "1">>}

\* The date elements of an item.
DatedKids ==
    { <<Field("pubDate", d)>> : d \in DashDates \cup {Soon, <<>>} }
        \cup { <<Field("updated", d)>> : d \in {Today, Soon} }
        \cup {<<>>, <<Field("pubDate", <<>>), Field("updated", Older)>>}

DatedItems == { XElem("", "item", <<>>, <<>>, <<Field("title", <<"T">>)>> \o k) : k \in DatedKids }

InitHealth ==
    /\ \E items \in UNION { [1..n -> DatedItems] : n \in 0..MaxItems } :
          fetched = <<Channel(<<Field("title", <<"F">>)>> \o items)>>
    /\ \E secs \in 0..MaxSkew : dashClock = ClockSeconds(DashDay, secs)
    /\ badge = "loading"
    /\ EarlyIdle
    /\ ReaderIdle
    /\ TabIdle
    /\ StoreIdle
    /\ ReadIdle
    /\ AgoIdle
    /\ GenIdle

\* renderDashboard: the card of a subscription once its feed is fetched
RenderDashboardCard ==
    /\ badge = "loading"
    /\ badge' = healthBadge(fetched, dashClock)
    /\ UNCHANGED <<fetched, dashClock, notHealth>>

SpecHealth == InitHealth /\ [][RenderDashboardCard]_vars

\* ----------------------------------------------------- claims: feed health

\* The dates of the items of the fetched feed that parse, as seconds.
UsableDates ==
    { DateSeconds(TextOf(f)) :
        f \in { x \in { Descendants(fetched)[i] : i \in DOMAIN Descendants(fetched) } :
                  x.local \in {"pubDate", "updated"} /\ DateSeconds(TextOf(x)) # NaN } }

\* C23: the badge is decided by the age of the feed's most recent item: green
\* up to 7 days, yellow above 7 and up to 30 days, red above 30 days, and white
\* exactly when the feed has no usable date.
C23_BadgeByMostRecentItem ==
    badge # "loading" =>
        IF UsableDates = {} THEN badge = "white"
        ELSE LET latest == CHOOSE d \in UsableDates : \A o \in UsableDates : o <= d
                 age == dashClock - latest
             IN  badge = (IF age > 30 * 86400 THEN "red"
                          ELSE IF age > 7 * 86400 THEN "yellow" ELSE "green")


\* ------------------------------------------------------- generic renderer

\* tagName.replace(/[-_]/g, " ").replace(/([a-z])([A-Z])/g, "$1 $2")
\*        .replace(/\b\w/g, char => char.toUpperCase())
formatLabel(tagName) ==
    LET lowers == toLowerCase(UpperCase)
        IsLower(c) == \E k \in 1..26 : lowers[k] = c
        IsUpper(c) == \E k \in 1..26 : UpperCase[k] = c
        IsWord(c) == IsLower(c) \/ IsUpper(c) \/ c = "_" \/ \E k \in 1..10 : DigitChars[k] = c
        spaced == [i \in 1..Len(tagName) |->
                      IF tagName[i] \in {"-", "_"} THEN " " ELSE tagName[i]]
        split == Joined([i \in 1..Len(spaced) |->
                            IF i < Len(spaced) /\ IsLower(spaced[i]) /\ IsUpper(spaced[i + 1])
                            THEN <<spaced[i], " ">> ELSE <<spaced[i]>>])
    IN  [i \in 1..Len(split) |->
            IF IsLower(split[i]) /\ (i = 1 \/ ~IsWord(split[i - 1]))
            THEN UpperCase[CHOOSE k \in 1..26 : lowers[k] = split[i]]
            ELSE split[i]]

\* Array.prototype.join(sep)
RECURSIVE join(_, _)
join(parts, sep) ==
    IF parts = <<>> THEN <<>>
    ELSE IF Len(parts) = 1 THEN Head(parts)
    ELSE Head(parts) \o sep \o join(Tail(parts), sep)

\* Generic Recursive Renderer (Fallback).  What it returns is [kind "null"]
\* for null, a string, the kv-row of a leaf with its label and its value, or
\* the container of a branch with its header (null at level 0) and the
\* renderings appended to its wrapper.
RECURSIVE renderGeneric(_, _)
renderGeneric(node, level) ==
    LET children == node.childNodes
        elementChildren == SelectSeq(children, LAMBDA n : n.nodeType = "element")
        textChildren == SelectSeq(children,
                                  LAMBDA n : n.nodeType = "text" /\ trim(n.nodeValue) # <<>>)
        leafText == join([i \in 1..Len(textChildren) |-> trim(textChildren[i].nodeValue)],
                         <<" ">>)
        rendered == [i \in 1..Len(elementChildren) |->
                        renderGeneric(elementChildren[i], level + 1)]
    IN  IF node.nodeType = "text"
        THEN IF trim(node.nodeValue) = <<>> THEN [kind |-> "null"]
             ELSE [kind |-> "string", value |-> trim(node.nodeValue)]
        ELSE IF node.nodeType # "element" THEN [kind |-> "null"]
        ELSE IF elementChildren = <<>>
        THEN IF leafText = <<>> THEN [kind |-> "null"]
             ELSE [kind |-> "row", label |-> formatLabel(node.nodeName),
                   value |-> formatValue(leafText)]
        ELSE [kind |-> "container",
              header |-> IF level > 0 THEN formatLabel(node.nodeName) ELSE Null,
              kids |-> SelectSeq(rendered, LAMBDA r : r.kind \notin {"null", "string"})]

\* ---- the generic view of the reader page (SpecGeneric)

Foo == <<"f", "o", "o">>
Bar == <<"b", "a", "r">>

GText(chars) == GNode("text", <<"#", "t", "e", "x", "t">>, chars, <<>>)
GCdata(chars) == GNode("cdata", <<"#", "c", "d", "a", "t", "a">>, chars, <<>>)
GElem(name, kids) == GNode("element", name, Null, kids)

LeafNames == {Foo, <<"l", "a", "s", "t", "M", "o", "d">>, <<"i", "t", "e", "m", "-", "i", "d">>}

LeafContents ==
    {<<>>, <<GText(Bar)>>, <<GText(<<" ">>)>>, <<GText(<<" ">> \o Bar \o <<"\n">>)>>,
     <<GCdata(Bar)>>, <<GNode("comment", <<"#", "c">>, Bar, <<>>)>>}

GenLeaves == { GElem(n, c) : n \in LeafNames, c \in LeafContents }

\* Branches: text nodes beside leaves, leaves that render nothing.  A parsed
\* document has no two text nodes side by side.
GenBranches ==
    { GElem(<<"u", "r", "l">>, kids) :
        kids \in { ks \in UNION { [1..n -> {GText(<<"t">>),
                                           GElem(<<"l", "o", "c">>, <<GText(Bar)>>),
                                           GElem(Foo, <<>>), GElem(Foo, <<GCdata(Bar)>>)}] :
                                   n \in 1..MaxGenKids } :
                    \A i \in 1..(Len(ks) - 1) :
                        ks[i].nodeType # "text" \/ ks[i + 1].nodeType # "text" } }

RECURSIVE Nest(_, _)
Nest(node, n) == IF n = 0 THEN node ELSE GElem(<<"n">>, <<Nest(node, n - 1)>>)

\* Root names: an unknown one, the sitemap's, the error document's.
GenRootNames == {<<"d", "a", "t", "a">>, UrlsetName,
                 <<"p", "a", "r", "s", "e", "r", "e", "r", "r", "o", "r">>}

GenRootKids ==
    {<<>>, <<GText(Bar)>>, <<GCdata(Bar)>>}
        \cup { <<Nest(k, d)>> : k \in GenLeaves \cup GenBranches, d \in 0..MaxDepth }
        \cup { <<GText(<<"\n">>), k, GText(<<"\n">>), GElem(Foo, <<GText(Bar)>>)>> :
                  k \in GenLeaves \cup GenBranches }

InitGeneric ==
    /\ \E n \in GenRootNames, kids \in GenRootKids : genRoot = GElem(n, kids)
    /\ genOut = NoPage
    /\ EarlyIdle
    /\ ReaderIdle
    /\ TabIdle
    /\ StoreIdle
    /\ ReadIdle
    /\ AgoIdle
    /\ HealthIdle

\* The reader page on a document that is no feed:
\*     content.appendChild(renderGeneric(root))
\* appendChild(null) throws a TypeError.
OpenGeneric ==
    /\ ~genOut.done
    /\ detectType(genRoot.nodeName) \notin {"rss", "atom"}
    /\ LET tree == renderGeneric(genRoot, 0)
       IN  genOut' = [done |-> TRUE, threw |-> (tree.kind = "null"), tree |-> tree]
    /\ UNCHANGED <<genRoot, notGen>>

SpecGeneric == InitGeneric /\ [][OpenGeneric]_vars

\* ------------------------------------------------ claims: generic renderer

\* Node.textContent of an element: the text and CDATA below it.
RECURSIVE GenText(_)
GenText(nodes) ==
    IF nodes = <<>> THEN <<>>
    ELSE (IF Head(nodes).nodeType \in {"text", "cdata"} THEN Head(nodes).nodeValue
          ELSE IF Head(nodes).nodeType = "element" THEN GenText(Head(nodes).childNodes)
          ELSE <<>>) \o GenText(Tail(nodes))

\* The labeled tree of the claim: a pair for a leaf with text, a container of
\* the renderings of the child elements for a branch, nothing otherwise.
RECURSIVE LabeledTree(_, _)
LabeledTree(node, level) ==
    LET elems == SelectSeq(node.childNodes, LAMBDA n : n.nodeType = "element")
        below == [i \in 1..Len(elems) |-> LabeledTree(elems[i], level + 1)]
    IN  IF elems = <<>>
        THEN IF trim(GenText(node.childNodes)) = <<>> THEN [kind |-> "null"]
             ELSE [kind |-> "row", label |-> formatLabel(node.nodeName),
                   value |-> trim(GenText(node.childNodes))]
        ELSE [kind |-> "container",
              header |-> IF level > 0 THEN formatLabel(node.nodeName) ELSE Null,
              kids |-> SelectSeq(below, LAMBDA r : r.kind # "null")]

\* A rendering with the pieces of every value read as the text they show.
RECURSIVE AsText(_)
AsText(tree) ==
    IF tree.kind = "row" THEN [tree EXCEPT !.value = Flatten(tree.value)]
    ELSE IF tree.kind = "container"
    THEN [tree EXCEPT !.kids = [i \in 1..Len(tree.kids) |-> AsText(tree.kids[i])]]
    ELSE tree

\* C24: every leaf with text becomes one label/value pair of its formatted
\* tag name and its text, every branch a container of its child elements'
\* renderings in document order, text directly under a branch is ignored;
\* a root holding only <foo>bar</foo> gives the one pair ("Foo", "bar").
C24_GenericLabeledTree ==
    genOut.done =>
        /\ AsText(genOut.tree) = LabeledTree(genRoot, 0)
        /\ genRoot.childNodes = <<GElem(Foo, <<GText(Bar)>>)>> =>
              AsText(genOut.tree).kids = <<[kind |-> "row", label |-> <<"F", "o", "o">>,
                                           value |-> Bar]>>

\* C25: on a document whose root is neither rss nor atom the reader path
\* detectType, renderGeneric, append raises no error.
C25_GenericNeverThrows == genOut.done => ~genOut.threw


\* ------------------------------------------------------ subscription manager

\* chrome.storage.local.set that keeps nothing but the items.
storageSetAlone(st, items) ==
    [k \in DOMAIN st |-> IF k \in DOMAIN items THEN items[k] ELSE EmptyStore[k]]

\* chrome.storage.local.set(items): the keys of items replaced, every other
\* key left as it is.
storageSet(st, items) ==
    [k \in DOMAIN st |-> IF k \in DOMAIN items THEN items[k] ELSE st[k]]

\* getSubscriptions: data.subscriptions || []
getSubscriptions(stored) == IF stored.set THEN stored.list ELSE <<>>

\* addSubscription that pushes without the test for a stored url.
addSubscriptionNoFind(stored, url, title, category) ==
    LET subs == getSubscriptions(stored)
    IN  [stored |-> Stored(Append(subs, [url |-> url, title |-> title,
                                         color |-> Len(subs) % FEED_COLORS_LENGTH,
                                         category |-> category])),
         returned |-> TRUE]

\* addSubscription: the value to store, none (wrote = FALSE) when the url is
\* already there, and what the call returns.  color is the index into
\* FEED_COLORS; addedAt, which nothing reads, is left out.
addSubscription(stored, url, title, category) ==
    LET subs == getSubscriptions(stored)
    IN  IF ~\E i \in 1..Len(subs) : subs[i].url = url
        THEN [stored |-> Stored(Append(subs, [url |-> url, title |-> title,
                                             color |-> Len(subs) % FEED_COLORS_LENGTH,
                                             category |-> category])),
              returned |-> TRUE]
        ELSE [stored |-> stored, returned |-> FALSE]

\* removeSubscription: the value it stores.
removeSubscription(stored, url) ==
    Stored(SelectSeq(getSubscriptions(stored), LAMBDA s : s.url # url))

\* updateSubscription: Object.assign(sub, updates) on the first subscription
\* with the url; returned tells whether there was one, and so a write.
updateSubscription(stored, url, updates) ==
    LET subs == getSubscriptions(stored)
        found == { i \in 1..Len(subs) : subs[i].url = url }
        first == CHOOSE i \in found : \A j \in found : i <= j
        assigned == [k \in DOMAIN subs[first] |->
                        IF k \in DOMAIN updates THEN updates[k] ELSE subs[first][k]]
    IN  IF found # {}
        THEN [stored |-> Stored([subs EXCEPT ![first] = assigned]), returned |-> TRUE]
        ELSE [stored |-> stored, returned |-> FALSE]

\* ---- the subscription manager, one call at a time (SpecSubs)

UrlA == Http \o <<"a", "/">>
UrlB == Https \o <<"b">>

SubUrls == {UrlA, UrlB}

\* The properties an update may carry.
SubUpdates == {[category |-> "News"], [color |-> 3], [title |-> "U", category |-> "Tech"]}
                  \cup { [url |-> u] : u \in SubUrls }

InitSubs ==
    /\ store = EmptyStore
    /\ opLast = NoOp
    /\ opsLeft = MaxSubOps
    /\ checkLog = <<>>
    /\ actionBadge = <<>>
    /\ EarlyIdle
    /\ ReaderIdle
    /\ TabIdle
    /\ ReadIdle
    /\ AgoIdle
    /\ HealthIdle
    /\ GenIdle

\* What one finished operation leaves behind.
Done(op, url, changed, returned, items) ==
    /\ opsLeft > 0
    /\ opsLeft' = opsLeft - 1
    /\ store' = storageSet(store, items)
    /\ opLast' = [op |-> op, url |-> url, changed |-> changed, returned |-> returned,
                  prev |-> store]
    /\ UNCHANGED <<checkLog, actionBadge, notStore>>

\* await addSubscription(url, title)
AddSubscription(url) ==
    LET res == addSubscription(store.subscriptions, url, "T", "Uncategorized")
    IN  Done("addSubscription", url, {}, res.returned,
             IF res.returned THEN [subscriptions |-> res.stored] ELSE <<>>)

\* await removeSubscription(url)
RemoveSubscription(url) ==
    Done("removeSubscription", url, {}, FALSE,
         [subscriptions |-> removeSubscription(store.subscriptions, url)])

\* await updateSubscription(url, updates)
UpdateSubscription(url, updates) ==
    LET res == updateSubscription(store.subscriptions, url, updates)
    IN  Done("updateSubscription", url, DOMAIN updates, res.returned,
             IF res.returned THEN [subscriptions |-> res.stored] ELSE <<>>)

NextSubs ==
    \E url \in SubUrls :
        \/ AddSubscription(url)
        \/ RemoveSubscription(url)
        \/ \E updates \in SubUpdates : UpdateSubscription(url, updates)

SpecSubs == InitSubs /\ [][NextSubs]_vars

\* ------------------------------------------- claims: subscription manager

NoTwoWithSameUrl(stored) ==
    LET subs == getSubscriptions(stored)
    IN  \A i, j \in 1..Len(subs) : subs[i].url = subs[j].url => i = j

\* What addSubscription and removeSubscription do to the list.
AddAndRemoveAsStated ==
    LET before == getSubscriptions(opLast.prev.subscriptions)
        after == getSubscriptions(store.subscriptions)
    IN  /\ (opLast.op = "addSubscription"
                /\ \E i \in 1..Len(before) : before[i].url = opLast.url) =>
               ~opLast.returned /\ store = opLast.prev
        /\ opLast.op = "removeSubscription" =>
               after = SelectSeq(before, LAMBDA s : s.url # opLast.url)

\* C30: after any sequence of addSubscription, removeSubscription and
\* updateSubscription calls, each finished before the next starts, no two
\* stored subscriptions have the same url; addSubscription of a stored url
\* returns false and changes nothing; removeSubscription removes the entries
\* with that url and no other.
C30_NoTwoWithSameUrl ==
    /\ NoTwoWithSameUrl(store.subscriptions)
    /\ AddAndRemoveAsStated

\* C30 as amended: a call keeps the urls distinct unless it is an
\* updateSubscription whose updates carry a url.
C30_DistinctUnlessUrlUpdated ==
    /\ (/\ NoTwoWithSameUrl(opLast.prev.subscriptions)
        /\ ~(opLast.op = "updateSubscription" /\ "url" \in opLast.changed)) =>
           NoTwoWithSameUrl(store.subscriptions)
    /\ AddAndRemoveAsStated

C30_Witness ==
    /\ opLast.op = "addSubscription"
    /\ ~opLast.returned
    /\ Len(getSubscriptions(store.subscriptions)) = 2
    /\ \E i \in 1..2 : store.subscriptions.list[i].category = "News"


\* ------------------------------------------------------ new-article checker

\* new URL(sub.url) with the protocol test: the URL as toString() writes it,
\* a bare host getting the path "/", or null when the URL is no http(s) URL.
safeUrl(url) ==
    LET scheme == IF startsWith(url, Http) THEN Http
                  ELSE IF startsWith(url, Https) THEN Https ELSE <<>>
    IN  IF scheme = <<>> \/ Len(url) = Len(scheme) THEN Null
        ELSE IF \E i \in (Len(scheme) + 1)..Len(url) : url[i] = "/" THEN url
        ELSE url \o <<"/">>

\* The loop of checkForNewArticles from subscription i on.  net gives for a
\* URL what fetch and the parser yield: ok = FALSE when either throws, else
\* the titles of the items, 0 standing for an empty title.  acc holds
\* updatedChecked and, per subscription, newArticles.length.
RECURSIVE CheckFrom(_, _, _, _, _)
CheckFrom(subs, i, lastChecked, net, acc) ==
    IF i > Len(subs) THEN acc
    ELSE LET url == safeUrl(subs[i].url)
             currentTitles == SelectSeq(net[url].titles, LAMBDA t : t # 0)
             previousTitles == IF url \in DOMAIN lastChecked THEN lastChecked[url] ELSE <<>>
             newArticles == SelectSeq(currentTitles,
                                      LAMBDA t : ~\E j \in 1..Len(previousTitles) :
                                                     previousTitles[j] = t)
             kept == SubSeq(currentTitles, 1,
                            IF Len(currentTitles) < TITLES_KEPT THEN Len(currentTitles)
                            ELSE TITLES_KEPT)
         IN  IF url = Null \/ ~net[url].ok
             THEN CheckFrom(subs, i + 1, lastChecked, net,
                            [acc EXCEPT !.counts = Append(@, 0)])
             ELSE CheckFrom(subs, i + 1, lastChecked, net,
                            [updatedChecked |->
                                 [u \in DOMAIN acc.updatedChecked \cup {url} |->
                                     IF u = url THEN kept ELSE acc.updatedChecked[u]],
                             counts |-> Append(acc.counts, Len(newArticles))])

\* checkForNewArticles: whether it writes, the lastCheckedArticles it writes,
\* totalNew and the count per subscription.
checkForNewArticles(st, net) ==
    LET subs == getSubscriptions(st.subscriptions)
        lastChecked == IF st.lastCheckedArticles.set THEN st.lastCheckedArticles.titles
                       ELSE <<>>
        res == CheckFrom(subs, 1, lastChecked, net,
                         [updatedChecked |-> lastChecked, counts |-> <<>>])
        Sum[n \in 0..Len(subs)] == IF n = 0 THEN 0 ELSE Sum[n - 1] + res.counts[n]
    IN  [wrote |-> subs # <<>>,
         lastCheckedArticles |-> [set |-> TRUE, titles |-> res.updatedChecked],
         counts |-> IF subs = <<>> THEN <<>> ELSE res.counts,
         totalNew |-> IF subs = <<>> THEN 0 ELSE Sum[Len(subs)]]

\* ---- the checker run again and again on one subscription list (SpecCheck)

UrlFtp == <<"f", "t", "p", ":", "/", "/", "c">>

\* A feed of n items with the titles 1..n.
Titles(n) == [i \in 1..n |-> i]

\* What the network may give for a URL.
Fetches ==
    {[ok |-> FALSE, titles |-> <<>>], [ok |-> TRUE, titles |-> <<>>],
     [ok |-> TRUE, titles |-> <<1, 0>>]}
        \cup { [ok |-> TRUE, titles |-> Titles(n)] :
                  n \in (TITLES_KEPT - 1)..(TITLES_KEPT + MaxExtra) }

SafeUrls == {UrlA, UrlB \o <<"/">>}

Sub(url) == [url |-> url, title |-> "T", color |-> 0, category |-> "Uncategorized"]

InitCheck ==
    /\ \E subs \in {<<>>, <<Sub(UrlA)>>, <<Sub(UrlB)>>, <<Sub(UrlFtp), Sub(UrlA)>>,
                     <<Sub(<<"x">>)>>} :
          store = [EmptyStore EXCEPT !.subscriptions = Stored(subs)]
    /\ opLast = NoOp
    /\ opsLeft = MaxChecks
    /\ checkLog = <<>>
    /\ actionBadge = <<>>
    /\ EarlyIdle
    /\ ReaderIdle
    /\ TabIdle
    /\ ReadIdle
    /\ AgoIdle
    /\ HealthIdle
    /\ GenIdle

\* The checkFeeds alarm: await checkForNewArticles()
CheckForNewArticles(net) ==
    LET res == checkForNewArticles(store, net)
    IN  /\ opsLeft > 0
        /\ opsLeft' = opsLeft - 1
        /\ store' = storageSet(store, IF res.wrote
                                      THEN [lastCheckedArticles |-> res.lastCheckedArticles]
                                      ELSE <<>>)
        /\ opLast' = [op |-> "checkForNewArticles", url |-> <<>>, changed |-> {},
                      returned |-> FALSE, prev |-> store]
        /\ checkLog' = Append(checkLog, [net |-> net, counts |-> res.counts])
        /\ actionBadge' = IF res.totalNew > 0 THEN NumberChars(res.totalNew) ELSE actionBadge
        /\ UNCHANGED notStore

\* Every subscription of one run gets the same answer, Null standing for the
\* URLs that are never fetched.
NextCheck == \E f \in Fetches : CheckForNewArticles([u \in SafeUrls \cup {Null} |-> f])

SpecCheck == InitCheck /\ [][NextCheck]_vars

\* ---------------------------------------------- claims: new-article checker

\* The titles stored for the subscription at position i.
TitlesKept(st, i) ==
    LET url == safeUrl(getSubscriptions(st.subscriptions)[i].url)
        known == st.lastCheckedArticles.set /\ url \in DOMAIN st.lastCheckedArticles.titles
    IN  IF known THEN st.lastCheckedArticles.titles[url] ELSE <<>>

\* C27: a feed that returns the same list of titles on two successful checks
\* in a row counts zero new articles on the second, however many items it
\* has; a feed whose fetch fails or whose URL is no http(s) URL counts zero
\* and keeps the titles stored for it.
C27_SameTitlesCountZero ==
    \A i \in 1..Len(getSubscriptions(store.subscriptions)) :
        LET url == safeUrl(getSubscriptions(store.subscriptions)[i].url)
            n == Len(checkLog)
        IN  /\ (/\ n >= 2
                /\ url # Null
                /\ checkLog[n].net[url].ok
                /\ checkLog[n - 1].net[url].ok
                /\ checkLog[n].net[url].titles = checkLog[n - 1].net[url].titles) =>
                   checkLog[n].counts[i] = 0
            /\ (n >= 1 /\ (url = Null \/ ~checkLog[n].net[url].ok)) =>
                   /\ checkLog[n].counts[i] = 0
                   /\ TitlesKept(store, i) = TitlesKept(opLast.prev, i)


\* ---- every operation that writes to the store (SpecStore)

\* A store in use: a subscription, a keyword, a saved article, two reads.
UsedStore ==
    [EmptyStore EXCEPT
        !.subscriptions = Stored(<<Sub(UrlA)>>),
        !.keywords = Stored(<<Ai>>),
        !.readLater = Stored(<<[link |-> UrlA, title |-> "T"]>>),
        !.readingStats = Stats(2, 1, StartDate, <<[date |-> StartDate, count |-> 2]>>),
        !.theme = "dark"]

InitStore ==
    /\ store \in {EmptyStore, UsedStore}
    /\ opLast = NoOp
    /\ opsLeft = MaxStoreOps
    /\ checkLog = <<>>
    /\ actionBadge = <<>>
    /\ EarlyIdle
    /\ ReaderIdle
    /\ TabIdle
    /\ ReadIdle
    /\ AgoIdle
    /\ HealthIdle
    /\ GenIdle

\* await addKeyword(val)
StoreAddKeyword(k) ==
    LET res == addKeyword(store.keywords, k)
    IN  Done("addKeyword", k, {}, res.returned,
             IF res.returned THEN [keywords |-> res.stored] ELSE <<>>)

\* await removeKeyword(keyword)
StoreRemoveKeyword(k) ==
    Done("removeKeyword", k, {}, FALSE, [keywords |-> removeKeyword(store.keywords, k)])

\* addToReadLater(article); savedAt, which no operation reads, is left out.
AddToReadLater(link) ==
    LET items == getKeywords(store.readLater)
        found == \E i \in 1..Len(items) : items[i].link = link
    IN  Done("addToReadLater", link, {}, ~found,
             IF found THEN <<>>
             ELSE [readLater |-> Stored(<<[link |-> link, title |-> "T"]>> \o items)])

\* removeFromReadLater(link)
RemoveFromReadLater(link) ==
    Done("removeFromReadLater", link, {}, FALSE,
         [readLater |-> Stored(SelectSeq(getKeywords(store.readLater),
                                         LAMBDA i : i.link # link))])

\* The theme buttons: chrome.storage.local.set({ theme: isLight ? "light" : "dark" })
ToggleTheme(isLight) ==
    Done("theme", <<>>, {}, FALSE, [theme |-> IF isLight THEN "light" ELSE "dark"])

\* The view button: chrome.storage.local.set({ feedViewMode: isGrid ? "list" : "grid" })
ToggleViewMode(isGrid) ==
    Done("feedViewMode", <<>>, {}, FALSE, [feedViewMode |-> IF isGrid THEN "list" ELSE "grid"])

\* autoBackupOPML: the outlines of the document it stores, one per
\* subscription, with the xmlUrl as it is escaped; nothing is written
\* without subscriptions.
AutoBackupOPML ==
    LET subs == getSubscriptions(store.subscriptions)
        outline(sub) == [title |-> sub.title,
                         xmlUrl |-> ReplaceAll(ReplaceAll(sub.url, "&", AmpEntity),
                                               "\"", QuotEntity)]
    IN  Done("autoBackupOPML", <<>>, {}, FALSE,
             IF subs = <<>> THEN <<>>
             ELSE [opmlBackup |-> Stored([i \in 1..Len(subs) |-> outline(subs[i])]),
                   opmlBackupDate |-> ClockSeconds(StartDate, 0)])

\* trackArticleRead(feedTitle) on the store, run to completion.
StoreTrackArticleRead ==
    LET res == TrackBody(getReadingStats(store.readingStats), StartDate)
    IN  Done("trackArticleRead", <<>>, {}, FALSE,
             IF res.threw THEN <<>> ELSE [readingStats |-> res.stats])

NextStore ==
    \/ \E url \in SubUrls :
            \/ AddSubscription(url)
            \/ RemoveSubscription(url)
            \/ UpdateSubscription(url, [category |-> "News"])
            \/ AddToReadLater(url)
            \/ RemoveFromReadLater(url)
    \/ \E k \in {Ai, <<"b">>} : StoreAddKeyword(k) \/ StoreRemoveKeyword(k)
    \/ \E b \in BOOLEAN : ToggleTheme(b) \/ ToggleViewMode(b)
    \/ AutoBackupOPML
    \/ NextCheck
    \/ StoreTrackArticleRead

SpecStore == InitStore /\ [][NextStore]_vars

\* ------------------------------------------------- claims: the store

\* C26: the stored readingStats is written by trackArticleRead alone: every
\* other operation (the subscription, keyword and read-later calls, the theme
\* and view toggles, autoBackupOPML, checkForNewArticles) leaves it as it was.
C26_StatsWrittenByTrackerOnly ==
    opLast.op \notin {"none", "trackArticleRead"} =>
        store.readingStats = opLast.prev.readingStats

C26_Witness ==
    /\ opLast.op = "checkForNewArticles"
    /\ store.readingStats.set
    /\ store.readingStats.totalArticles = 3
    /\ store.lastCheckedArticles.set


\* -------------------------------------------------- background worker: tabs

\* ---- the worker between its events (SpecTabs)

InitTabs ==
    /\ tabFeeds = [t \in Tabs |-> NoEntry]
    /\ tabBadge = [t \in Tabs |-> <<>>]
    /\ tabLast = [kind |-> "none", tab |-> 0, answer |-> NoEntry,
                  feedsBefore |-> [t \in Tabs |-> NoEntry],
                  badgeBefore |-> [t \in Tabs |-> <<>>]]
    /\ announced = [t \in Tabs |-> NoEntry]
    /\ eventsLeft = MaxTabEvents
    /\ EarlyIdle
    /\ ReaderIdle
    /\ ReadIdle
    /\ AgoIdle
    /\ HealthIdle
    /\ GenIdle
    /\ StoreIdle

\* One event of the worker is over.
Event(kind, tab, answer) ==
    /\ eventsLeft > 0
    /\ eventsLeft' = eventsLeft - 1
    /\ tabLast' = [kind |-> kind, tab |-> tab, answer |-> answer,
                   feedsBefore |-> tabFeeds, badgeBefore |-> tabBadge]
    /\ UNCHANGED notTab

\* onMessage, action "feedsDetected" from the content script of a tab
FeedsDetected(tabId, feeds) ==
    /\ tabFeeds' = [tabFeeds EXCEPT ![tabId] = [has |-> TRUE, feeds |-> feeds]]
    /\ tabBadge' = [tabBadge EXCEPT ![tabId] = NumberChars(Len(feeds))]
    /\ announced' = [announced EXCEPT ![tabId] = [has |-> TRUE, feeds |-> feeds]]
    /\ Event("feedsDetected", tabId, NoEntry)

\* onMessage, action "getDetectedFeedsForTab": sendResponse(tabFeeds[tabId] || null)
GetDetectedFeedsForTab(tabId) ==
    /\ Event("getDetectedFeedsForTab", tabId, tabFeeds[tabId])
    /\ UNCHANGED <<tabFeeds, tabBadge, announced>>

\* chrome.tabs.onRemoved
TabRemoved(tabId) ==
    /\ tabFeeds' = [tabFeeds EXCEPT ![tabId] = NoEntry]
    /\ announced' = [announced EXCEPT ![tabId] = NoEntry]
    /\ Event("removed", tabId, NoEntry)
    /\ UNCHANGED tabBadge

\* chrome.tabs.onUpdated
TabUpdated(tabId, urlChanged) ==
    /\ tabFeeds' = IF urlChanged THEN [tabFeeds EXCEPT ![tabId] = NoEntry] ELSE tabFeeds
    /\ tabBadge' = IF urlChanged THEN [tabBadge EXCEPT ![tabId] = <<>>] ELSE tabBadge
    /\ announced' = IF urlChanged THEN [announced EXCEPT ![tabId] = NoEntry] ELSE announced
    /\ Event("updated", tabId, NoEntry)

\* The browser stops the idle service worker and starts it for the next
\* event: the script runs from its top, const tabFeeds = {}.  The badges are
\* the browser's and stay.
WorkerRestarted ==
    /\ tabFeeds' = [t \in Tabs |-> NoEntry]
    /\ Event("restarted", 0, NoEntry)
    /\ UNCHANGED <<tabBadge, announced>>

NextTabs ==
    \/ \E t \in Tabs :
            \/ \E n \in 1..MaxFeeds : FeedsDetected(t, [i \in 1..n |-> 10 * t + i])
            \/ GetDetectedFeedsForTab(t)
            \/ TabRemoved(t)
            \/ \E b \in BOOLEAN : TabUpdated(t, b)
    \/ WorkerRestarted

SpecTabs == InitTabs /\ [][NextTabs]_vars

\* ----------------------------------------- claims: background worker, tabs

\* C28: getDetectedFeedsForTab(t) answers with the feeds of the latest
\* feedsDetected message of t when t was neither closed nor changed its URL
\* since, and with null otherwise; an event of one tab leaves the entry and
\* the badge of every other tab alone; the badge set on detection shows the
\* number of feeds stored.
C28_DetectedFeedsPerTab ==
    /\ tabLast.kind = "getDetectedFeedsForTab" => tabLast.answer = announced[tabLast.tab]
    /\ \A t \in Tabs :
           (tabLast.tab \in Tabs /\ t # tabLast.tab) =>
               /\ tabFeeds[t] = tabLast.feedsBefore[t]
               /\ tabBadge[t] = tabLast.badgeBefore[t]
    /\ tabLast.kind = "feedsDetected" =>
           tabBadge[tabLast.tab] = NumberChars(Len(tabFeeds[tabLast.tab].feeds))


\* ------------------------------------------------- inline article reader

\* The articles of a feed with a title and of a feed without one.
TitledArticles == <<"a1", "a2", "a3", "a4">>
UntitledArticles == <<"b1", "b2", "b3", "b4">>

\* The calls pass a number for index; articleList is the list of the card or null.
openArticleReaderKeepHandler(r, anArticle, articleList, index) ==
    [r EXCEPT !.list = IF articleList # Null THEN articleList ELSE @,
              !.index = index,
              !.panel = "open",
              !.shown = anArticle,
              !.handler = TRUE,
              !.listeners = @ + 1,
              !.reads = IF \E i \in DOMAIN TitledArticles : TitledArticles[i] = anArticle
                        THEN @ + 1 ELSE @]

openArticleReader(r, anArticle, articleList, index) ==
    [r EXCEPT !.list = IF articleList # Null THEN articleList ELSE @,
              !.index = index,
              !.panel = "open",
              !.shown = anArticle,
              !.handler = TRUE,
              !.listeners = (IF r.handler /\ @ > 0 THEN @ - 1 ELSE @) + 1,
              !.reads = IF \E i \in DOMAIN TitledArticles : TitledArticles[i] = anArticle
                        THEN @ + 1 ELSE @]

\* The panel fades and its removal waits for a timer.
closeArticleReader(r) ==
    [r EXCEPT !.panel = IF @ = "none" THEN "none" ELSE "closing",
              !.handler = FALSE,
              !.listeners = IF r.handler /\ @ > 0 THEN @ - 1 ELSE @]

navigateArticle(r, direction) ==
    LET newIndex == r.index + direction
    IN  IF newIndex >= 0 /\ newIndex < Len(r.list)
        THEN openArticleReader([r EXCEPT !.index = newIndex], r.list[newIndex + 1],
                               Null, newIndex)
        ELSE r

\* ---- the reader under clicks and keys (SpecReader)

ReaderLists ==
    { SubSeq(names, 1, n) : names \in {TitledArticles, UntitledArticles},
                            n \in 1..MaxArticles }

InitReader ==
    /\ reader = NoReader
    /\ readerLast = [op |-> "none", direction |-> 0, before |-> NoReader]
    /\ readerLeft = MaxReaderOps
    /\ EarlyIdle
    /\ ReadIdle
    /\ AgoIdle
    /\ HealthIdle
    /\ GenIdle
    /\ StoreIdle
    /\ TabIdle

ReaderStep(op, direction, after) ==
    /\ readerLeft > 0
    /\ readerLeft' = readerLeft - 1
    /\ reader' = after
    /\ readerLast' = [op |-> op, direction |-> direction, before |-> reader]
    /\ UNCHANGED notReader

\* A click on a card or on its Read Article button.
CardClick(allArticles, index) ==
    ReaderStep("openArticleReader", 0,
               openArticleReader(reader, allArticles[index + 1], allArticles, index))

\* An arrow key while the key handler is registered, or a click on a button
\* of the panel that open did not disable.
NavigateArticle(direction) ==
    /\ \/ reader.handler
       \/ /\ reader.panel # "none"
          /\ IF direction < 0 THEN ~(reader.index <= 0)
                              ELSE ~(reader.index >= Len(reader.list) - 1)
    /\ ReaderStep("navigateArticle", direction, navigateArticle(reader, direction))

\* Escape, the close button or a click on the backdrop.
CloseArticleReader ==
    /\ reader.handler \/ reader.panel # "none"
    /\ ReaderStep("closeArticleReader", 0, closeArticleReader(reader))

\* setTimeout(() => panel.remove(), 350) of a close, no open since.
PanelRemoved ==
    /\ reader.panel = "closing"
    /\ ReaderStep("timer", 0, [reader EXCEPT !.panel = "none", !.shown = ""])

NextReader ==
    \/ \E l \in ReaderLists : \E i \in 0..(Len(l) - 1) : CardClick(l, i)
    \/ \E d \in {-1, 1} : NavigateArticle(d)
    \/ CloseArticleReader
    \/ PanelRemoved

SpecReader == InitReader /\ [][NextReader]_vars

\* ------------------------------------------- claims: inline article reader

\* The latest step was navigateArticle(direction) past an end of the list.
PastEitherEnd ==
    /\ readerLast.op = "navigateArticle"
    /\ LET to == readerLast.before.index + readerLast.direction
       IN  to < 0 \/ to >= Len(readerLast.before.list)

\* C29: once a card opened the reader on a non-empty list, the current index
\* is within 0 .. length - 1 and the article shown is the one of the list at
\* the index; navigateArticle past either end changes nothing and records no
\* read; at most one key handler of the reader is registered.
C29_ReaderIndexWithinList ==
    /\ reader.list # <<>> =>
           /\ 0 <= reader.index /\ reader.index < Len(reader.list)
           /\ reader.shown # "" => reader.shown = reader.list[reader.index + 1]
    /\ PastEitherEnd => reader = readerLast.before
    /\ reader.listeners <= 1

\* C29 happens: a reader that tracked a read was navigated past an end with
\* its key handler registered.
C29_Witness ==
    /\ PastEitherEnd
    /\ reader.reads > 0
    /\ reader.listeners = 1

=============================================================================
